---- MODULE Spec2Model ----
(***************************************************************************)
(* Model of the AINX concurrency substrate:                                *)
(*   - AsyncMessageBus  (src/message_bus/async_message_bus.py)             *)
(*   - AsyncWorkspace   (src/workspace/async_workspace.py)                 *)
(* Scheduling is asyncio's: one task runs at a time and is only left at a  *)
(* suspension point, so every coroutine body without a suspending await is *)
(* one action.                                                             *)
(***************************************************************************)
EXTENDS Integers, Sequences, FiniteSets, TLC

(* ------------------------------ bounds -------------------------------- *)
MaxSends == 3        \* accepted send_message calls in one behaviour
MaxSubs == 2         \* subscribe calls in one behaviour
MaxQueue == 2        \* max_queue_size handed to AsyncMessageBus(...)
MaxSets == 2         \* workspace set() calls in one behaviour
MaxChanges == 3      \* workspace change records in one behaviour
MaxReads == 2        \* workspace get() calls in one behaviour
MaxStarts == 2       \* start_listening() calls of one runtime
MaxPeeks == 2        \* peek_messages_for_agent calls
MaxHistory == 2      \* capacity of the bus history, deque(maxlen=10000), scaled

Agents == {"a", "b", "c"}
BROADCAST == "broadcast"
Callbacks == {"cb_ok", "cb_fail"}      \* a callback that returns / raises
Rules == {"rule_ok", "rule_fail"}      \* a routing rule that returns / raises
RuleTargets == {"c"}                   \* recipients given a routing rule
SubTargets == {"b"}                    \* recipients given subscribers

Absent == "<absent>"   \* key not in the dict (string-valued fields)
AbsentId == <<>>       \* message_id not in the dict
AbsentTs == 0          \* timestamp not in the dict

RequiredFields == {"sender", "recipient", "role", "intent", "content"}

(* A message dict as a caller builds it: any required key may be missing. *)
MkInput(s, r, ro, i, c, id) ==
  [sender |-> s, recipient |-> r, role |-> ro, intent |-> i, content |-> c,
   message_id |-> id, timestamp |-> AbsentTs, oid |-> 0]

ValidInputs ==
  { MkInput("a", "b", "user", "ping", "x", AbsentId),
    MkInput("a", "c", "user", "ping", "y", <<"cid">>),
    MkInput("b", "a", "agent", "pong", "x", AbsentId),
    MkInput("a", BROADCAST, "system", "shutdown", "x", AbsentId) }

InvalidInputs ==
  { MkInput(Absent, "b", "user", "ping", "x", AbsentId),
    MkInput("a", Absent, "user", "ping", "x", AbsentId),
    MkInput("a", "c", Absent, "ping", "x", AbsentId),
    MkInput("a", "b", "user", Absent, "x", AbsentId),
    MkInput("b", "a", "user", "ping", Absent, <<"cid">>),
    MkInput(Absent, Absent, Absent, Absent, Absent, AbsentId) }

Inputs == ValidInputs \cup InvalidInputs

VARIABLES
  running,          \* bus._running
  message_queues,   \* bus.message_queues: recipient -> deque (keys created lazily)
  message_history,  \* bus.message_history
  subscribers,      \* bus.subscribers: recipient -> list of callbacks (lazy keys)
  routing_rules,    \* bus.routing_rules: recipient -> rule
  stats,            \* bus.stats
  tasks,            \* subscriber-notification tasks, in creation order
  bcasts,           \* broadcasts suspended in gather(): message and deliveries left
  sendResult,       \* how the last completed send_message call ended
  sent,             \* log: accepted sends, in call order (index = oid)
  arrived,          \* log: recipient -> oids appended to its queue, in order
  mark,             \* log: Len(arrived[r]) when r's queue was last emptied
  drained,          \* log: recipient -> the non-empty lists its drains returned
  evicted,          \* log: recipient -> oids pushed out of its full queue
  ruleCalls,        \* log: routing-rule invocations <<rule, recipient, oid>>
  peeked,           \* log: the last peek_messages_for_agent call and what it returned
  touched           \* log: the recipients whose queue an operation has asked for

busVars == <<running, message_queues, message_history, subscribers,
             routing_rules, stats, tasks, bcasts, sendResult, sent, arrived, mark,
             drained, evicted, ruleCalls, peeked, touched>>

VARIABLES
  data,             \* workspace.data: key -> value
  metadata,         \* workspace.metadata: key -> who wrote it, and over what
  change_history,   \* workspace.change_history
  ws_subscribers,   \* workspace.subscribers: key or "*" -> list of callbacks
  locks,            \* workspace.locks: the keys a Lock was created for
  ws_stats,         \* workspace.stats
  ws_notes,         \* change-notification tasks, in creation order
  ws_ret,           \* what the last completed workspace call returned
  ws_calls          \* log: the set() calls issued, and when each took effect

wsVars == <<data, metadata, change_history, ws_subscribers, locks, ws_stats,
            ws_notes, ws_ret, ws_calls>>

VARIABLES
  ag_status,        \* runtime -> agent.status
  ag_init,          \* runtime -> initialize() has been called
  ag_listen,        \* runtime -> where its start_listening() task stands
  ag_handlers,      \* the _process_message_async tasks, in creation order
  ag_active,        \* runtime -> agent.active_tasks (indices of ag_handlers)
  ag_stop,          \* runtime -> where its stop() call stands
  ag_log,           \* log: runtime -> the values its status took, and "initialize"
  mgr               \* the manager: its agent_tasks and where stop_all_agents() stands

agVars == <<ag_status, ag_init, ag_listen, ag_handlers, ag_active, ag_stop,
            ag_log, mgr>>

vars == <<busVars, wsVars, agVars>>

(* ----------------------------- helpers -------------------------------- *)
NoMsg == MkInput(Absent, Absent, Absent, Absent, Absent, AbsentId)

(* status: "ok" or the exception raised; msg: the dict a failed call was given *)
Result(status, msg) == [status |-> status, msg |-> msg]

Oids(q) == [i \in 1..Len(q) |-> q[i].oid]

(* mutant: the id is assigned over the caller's own *)
SetDefaults_Overwrite(m, n) ==
  [m EXCEPT !.message_id = <<"uuid", n>>,
            !.timestamp = IF @ = AbsentTs THEN n ELSE @,
            !.oid = n]

(* message.setdefault("message_id", uuid4()); setdefault("timestamp", time()) *)
SetDefaults(m, n) ==
  [m EXCEPT !.message_id = IF @ = AbsentId THEN <<"uuid", n>> ELSE @,
            !.timestamp = IF @ = AbsentTs THEN n ELSE @,
            !.oid = n]

(* mutant: "content" is left out of the required fields *)
ValidateMessage_NoContent(m) ==
  /\ m.sender # Absent
  /\ m.recipient # Absent
  /\ m.role # Absent
  /\ m.intent # Absent

(* _validate_message *)
ValidateMessage(m) ==
  /\ m.sender # Absent
  /\ m.recipient # Absent
  /\ m.role # Absent
  /\ m.intent # Absent
  /\ m.content # Absent

(* mutant: a full deque refuses the new element instead of dropping the oldest *)
DequeAppend_KeepOldest(q, m, n) ==
  IF Len(q) < n THEN Append(q, m) ELSE q

(* deque(maxlen=n).append *)
DequeAppend(q, m, n) ==
  IF Len(q) < n THEN Append(q, m) ELSE Append(Tail(q), m)

(* mutant: the history is a plain list and keeps every message *)
HistoryAppend_Unbounded(h, msg) == Append(h, msg)

(* self.message_history.append(message.copy()) on the deque of fixed maxlen *)
HistoryAppend(h, msg) == DequeAppend(h, msg, MaxHistory)

QueueOf(qs, r) == IF r \in DOMAIN qs THEN qs[r] ELSE <<>>

(* defaultdict access: self.message_queues[r] creates the key *)
Touch(qs, r) == IF r \in DOMAIN qs THEN qs ELSE (r :> <<>>) @@ qs

NewTasks(cbs, m, r) ==
  [i \in 1..Len(cbs) |-> [cb |-> cbs[i], oid |-> m.oid, rcpt |-> r,
                          st |-> "pending", tracked |-> TRUE]]

(* self._delivery_tasks = {task for task in ... if not task.done()} *)
Reclaim(ts) ==
  [i \in 1..Len(ts) |-> IF ts[i].st = "pending" THEN ts[i]
                        ELSE [ts[i] EXCEPT !.tracked = FALSE]]

TasksAfterDeliver(ts, subs, m, r) ==
  IF r \in DOMAIN subs THEN Reclaim(ts \o NewTasks(subs[r], m, r)) ELSE ts

(* mutant: a queue at capacity makes the delivery wait for a drain, as a
   bounded asyncio.Queue would *)
DeliverMessage_Blocking(m, r, sentInc) ==
  /\ Len(QueueOf(message_queues, r)) < MaxQueue
  /\ message_queues' = [Touch(message_queues, r) EXCEPT ![r] = Append(@, m)]
  /\ tasks' = TasksAfterDeliver(tasks, subscribers, m, r)
  /\ stats' = [stats EXCEPT !.messages_delivered = @ + 1,
                            !.messages_sent = @ + sentInc]
  /\ arrived' = [arrived EXCEPT ![r] = Append(@, m.oid)]
  /\ touched' = touched \cup {r}
  /\ UNCHANGED evicted

(* _deliver_message(message, recipient); sentInc is what the caller adds to
   messages_sent in the same step *)
DeliverMessage(m, r, sentInc) ==
  /\ message_queues' = [Touch(message_queues, r) EXCEPT
                          ![r] = DequeAppend(@, m, MaxQueue)]
  /\ tasks' = TasksAfterDeliver(tasks, subscribers, m, r)
  /\ stats' = [stats EXCEPT !.messages_delivered = @ + 1,
                            !.messages_sent = @ + sentInc]
  /\ arrived' = [arrived EXCEPT ![r] = Append(@, m.oid)]
  /\ touched' = touched \cup {r}
  /\ evicted' = IF Len(QueueOf(message_queues, r)) < MaxQueue THEN evicted
                ELSE [evicted EXCEPT ![r] = Append(@, Head(message_queues[r]).oid)]

(* ------------------------------ Init ---------------------------------- *)
BusInit ==
  /\ running = FALSE
  /\ message_queues = <<>>
  /\ message_history = <<>>
  /\ subscribers = <<>>
  /\ routing_rules = <<>>
  /\ stats = [messages_sent |-> 0, messages_delivered |-> 0,
              failed_deliveries |-> 0]
  /\ tasks = <<>>
  /\ bcasts = <<>>
  /\ sendResult = Result("none", NoMsg)
  /\ sent = <<>>
  /\ arrived = [r \in Agents |-> <<>>]
  /\ mark = [r \in Agents |-> 0]
  /\ drained = [r \in Agents |-> <<>>]
  /\ evicted = [r \in Agents |-> <<>>]
  /\ ruleCalls = <<>>
  /\ peeked = [agent |-> Absent, msgs |-> <<>>, n |-> 0]
  /\ touched = {}

(* ----------------------------- actions -------------------------------- *)
Start ==
  /\ ~running
  /\ running' = TRUE
  /\ UNCHANGED <<sendResult, message_queues, message_history, subscribers, routing_rules,
                 stats, tasks, bcasts, sent, arrived, mark, drained, evicted,
                 ruleCalls, peeked, touched>>
  /\ UNCHANGED wsVars
  /\ UNCHANGED agVars

(* stop(): task.cancel() on every tracked task; a finished task ignores it *)
Stop ==
  /\ running
  /\ running' = FALSE
  /\ tasks' = [i \in 1..Len(tasks) |->
                 IF tasks[i].st = "pending" THEN [tasks[i] EXCEPT !.st = "cancelled"]
                 ELSE tasks[i]]
  /\ UNCHANGED <<sendResult, message_queues, message_history, subscribers, routing_rules,
                 stats, bcasts, sent, arrived, mark, drained, evicted, ruleCalls, peeked, touched>>
  /\ UNCHANGED wsVars
  /\ UNCHANGED agVars

(* mutant: the running check comes after the history append *)
SendNotRunning_Logged(m) ==
  /\ ~running
  /\ sendResult' = Result("RuntimeError", m)
  /\ message_history' =
       HistoryAppend(message_history, SetDefaults(m, Len(sent) + 1))
  /\ UNCHANGED <<running, message_queues, subscribers,
                 routing_rules, stats, tasks, bcasts, sent, arrived, mark,
                 drained, evicted, ruleCalls, peeked, touched>>
  /\ UNCHANGED wsVars
  /\ UNCHANGED agVars

(* send_message on a bus that is not running: RuntimeError, before anything
   else is looked at *)
SendNotRunning(m) ==
  /\ ~running
  /\ sendResult' = Result("RuntimeError", m)
  /\ UNCHANGED <<running, message_queues, message_history, subscribers,
                 routing_rules, stats, tasks, bcasts, sent, arrived, mark,
                 drained, evicted, ruleCalls, peeked, touched>>
  /\ UNCHANGED wsVars
  /\ UNCHANGED agVars

SendInvalid(m) ==
  /\ running
  /\ ~ValidateMessage(SetDefaults(m, Len(sent) + 1))
  /\ sendResult' = Result("ValueError", m)
  /\ UNCHANGED <<running, message_queues, message_history, subscribers,
                 routing_rules, stats, tasks, bcasts, sent, arrived, mark,
                 drained, evicted, ruleCalls, peeked, touched>>
  /\ UNCHANGED wsVars
  /\ UNCHANGED agVars

(* mutant: the routing-rule branch is never taken *)
RouteOf_NoRule(msg) ==
  IF msg.recipient = BROADCAST THEN "broadcast" ELSE "direct"

(* _route_message: which branch takes the message *)
RouteOf(msg) ==
  IF msg.recipient = BROADCAST THEN "broadcast"
  ELSE IF msg.recipient \in DOMAIN routing_rules THEN "rule"
  ELSE "direct"

(* mutant: a recipient that has a routing rule is left out of a broadcast *)
BroadcastTargets_SkipRuled(msg) ==
  {a \in DOMAIN message_queues : a # msg.sender /\ a \notin DOMAIN routing_rules}

(* mutant: the sender's own queue is not skipped *)
BroadcastTargets_All(msg) ==
  DOMAIN message_queues

(* _broadcast_message: the queues known now, the sender's excepted *)
BroadcastTargets(msg) ==
  {a \in DOMAIN message_queues : a # msg.sender}

(* the part of send_message every accepted message goes through *)
Accept(m, msg) ==
  /\ running
  /\ ValidateMessage(msg)
  /\ Len(sent) < MaxSends
  /\ message_history' = HistoryAppend(message_history, msg)
  /\ sent' = Append(sent, [input |-> m,
                           ruled |-> msg.recipient \in DOMAIN routing_rules,
                           known |-> IF msg.recipient = BROADCAST
                                       THEN DOMAIN message_queues ELSE {}])
  /\ UNCHANGED <<running, subscribers, routing_rules, mark, drained>>
  /\ UNCHANGED wsVars
  /\ UNCHANGED agVars

SendDirect(m) ==
  LET msg == SetDefaults(m, Len(sent) + 1) IN
  /\ Accept(m, msg)
  /\ RouteOf(msg) = "direct"
  /\ DeliverMessage(msg, msg.recipient, 1)
  /\ sendResult' = Result("ok", NoMsg)
  /\ UNCHANGED <<bcasts, ruleCalls, peeked>>

SendRouted(m) ==
  LET msg == SetDefaults(m, Len(sent) + 1)
      rule == routing_rules[msg.recipient] IN
  /\ Accept(m, msg)
  /\ RouteOf(msg) = "rule"
  /\ ruleCalls' = Append(ruleCalls, <<rule, msg.recipient, msg.oid>>)
  /\ IF rule = "rule_fail"
       THEN /\ sendResult' = Result("RuleError", NoMsg)
            /\ UNCHANGED stats
       ELSE /\ sendResult' = Result("ok", NoMsg)
            /\ stats' = [stats EXCEPT !.messages_sent = @ + 1]
  /\ UNCHANGED <<message_queues, tasks, bcasts, arrived, evicted, peeked, touched>>

(* recipient == "broadcast": one _deliver_message task per known queue other
   than the sender's; with no such queue gather() is skipped and the call
   returns in the same step *)
SendBroadcast(m) ==
  LET msg == SetDefaults(m, Len(sent) + 1)
      targets == BroadcastTargets(msg) IN
  /\ Accept(m, msg)
  /\ RouteOf(msg) = "broadcast"
  /\ IF targets = {}
       THEN /\ stats' = [stats EXCEPT !.messages_sent = @ + 1]
            /\ sendResult' = Result("ok", NoMsg)
            /\ UNCHANGED bcasts
       ELSE /\ bcasts' = Append(bcasts, [msg |-> msg, input |-> m, left |-> targets])
            /\ UNCHANGED <<stats, sendResult>>
  /\ UNCHANGED <<message_queues, tasks, arrived, evicted, ruleCalls, peeked, touched>>

(* The event loop runs ready tasks first-in first-out: the deliveries of an
   earlier broadcast run before those of a later one. *)
BroadcastDeliver(a) ==
  /\ bcasts # <<>>
  /\ \E i \in 1..Len(bcasts) :
       /\ a \in bcasts[i].left
       /\ \A j \in 1..(i - 1) : bcasts[j].left = {}
       /\ DeliverMessage(bcasts[i].msg, a, 0)
       /\ bcasts' = [bcasts EXCEPT ![i].left = @ \ {a}]
  /\ UNCHANGED <<running, message_history, subscribers, routing_rules, sendResult,
                 sent, mark, drained, ruleCalls, peeked>>
  /\ UNCHANGED wsVars
  /\ UNCHANGED agVars

(* gather() has returned: send_message resumes and counts the message *)
BroadcastReturn ==
  /\ bcasts # <<>>
  /\ \E i \in 1..Len(bcasts) :
       /\ bcasts[i].left = {}
       /\ \A j \in 1..(i - 1) : bcasts[j].left # {}
       /\ bcasts' = [j \in 1..(Len(bcasts) - 1) |->
                       IF j < i THEN bcasts[j] ELSE bcasts[j + 1]]
       /\ sendResult' = Result("ok", NoMsg)
  /\ stats' = [stats EXCEPT !.messages_sent = @ + 1]
  /\ UNCHANGED <<running, message_queues, message_history, subscribers,
                 routing_rules, tasks, sent, arrived, mark, drained, evicted,
                 ruleCalls, peeked, touched>>
  /\ UNCHANGED wsVars
  /\ UNCHANGED agVars

(* mutant: what the callback raises is not caught per task, and the other
   notifications of the same message are abandoned *)
NotifySubscriber_Propagate(i) ==
  /\ tasks[i].st = "pending"
  /\ tasks' = [j \in 1..Len(tasks) |->
                 IF j = i
                   THEN [tasks[j] EXCEPT !.st = IF tasks[i].cb = "cb_fail"
                                                  THEN "failed" ELSE "ok"]
                 ELSE IF /\ tasks[i].cb = "cb_fail"
                         /\ tasks[j].oid = tasks[i].oid
                         /\ tasks[j].st = "pending"
                   THEN [tasks[j] EXCEPT !.st = "cancelled"]
                 ELSE tasks[j]]
  /\ UNCHANGED <<running, message_queues, message_history, subscribers,
                 routing_rules, stats, bcasts, sendResult, sent, arrived, mark,
                 drained, evicted, ruleCalls, peeked, touched>>
  /\ UNCHANGED wsVars
  /\ UNCHANGED agVars

(* _notify_subscriber(callback, message): the callback runs; what it raises
   is caught and logged *)
NotifySubscriber(i) ==
  /\ tasks[i].st = "pending"
  /\ tasks' = [tasks EXCEPT ![i].st = IF tasks[i].cb = "cb_fail" THEN "failed"
                                      ELSE "ok"]
  /\ UNCHANGED <<running, message_queues, message_history, subscribers,
                 routing_rules, stats, bcasts, sendResult, sent, arrived, mark,
                 drained, evicted, ruleCalls, peeked, touched>>
  /\ UNCHANGED wsVars
  /\ UNCHANGED agVars

(* mutant: the messages are returned but left in the queue *)
GetMessagesForAgent_Keep(a) ==
  LET q == QueueOf(message_queues, a) IN
  /\ message_queues' = Touch(message_queues, a)
  /\ drained' = IF q = <<>> THEN drained
                ELSE [drained EXCEPT ![a] = Append(@, q)]
  /\ mark' = [mark EXCEPT ![a] = Len(arrived[a])]
  /\ UNCHANGED <<sendResult, running, message_history, subscribers, routing_rules,
                 stats, tasks, bcasts, sent, arrived, evicted, ruleCalls, peeked>>
  /\ touched' = touched \cup {a}
  /\ UNCHANGED wsVars
  /\ UNCHANGED agVars

(* get_messages_for_agent(agent_id) *)
GetMessagesForAgent(a) ==
  LET q == QueueOf(message_queues, a) IN
  /\ message_queues' = [Touch(message_queues, a) EXCEPT ![a] = <<>>]
  /\ drained' = IF q = <<>> THEN drained
                ELSE [drained EXCEPT ![a] = Append(@, q)]
  /\ mark' = [mark EXCEPT ![a] = Len(arrived[a])]
  /\ UNCHANGED <<sendResult, running, message_history, subscribers, routing_rules, stats,
                 tasks, bcasts, sent, arrived, evicted, ruleCalls, peeked>>
  /\ touched' = touched \cup {a}
  /\ UNCHANGED wsVars
  /\ UNCHANGED agVars

(* what peek_messages_for_agent(agent_id) returns: list(self.message_queues[agent_id]) *)
PeekMessages(a) == QueueOf(message_queues, a)

(* mutant: the peek takes the messages out of the queue, as a drain does *)
Peek_Consume(a) ==
  /\ peeked.n < MaxPeeks
  /\ message_queues' = [Touch(message_queues, a) EXCEPT ![a] = <<>>]
  /\ peeked' = [agent |-> a, msgs |-> PeekMessages(a), n |-> peeked.n + 1]
  /\ touched' = touched \cup {a}
  /\ UNCHANGED <<running, message_history, subscribers, routing_rules, stats,
                 tasks, bcasts, sendResult, sent, arrived, mark, drained,
                 evicted, ruleCalls>>
  /\ UNCHANGED wsVars
  /\ UNCHANGED agVars

(* peek_messages_for_agent(agent_id): the defaultdict creates the queue of an agent
   that had none; nothing is removed *)
Peek(a) ==
  /\ peeked.n < MaxPeeks
  /\ message_queues' = Touch(message_queues, a)
  /\ peeked' = [agent |-> a, msgs |-> PeekMessages(a), n |-> peeked.n + 1]
  /\ touched' = touched \cup {a}
  /\ UNCHANGED <<running, message_history, subscribers, routing_rules, stats,
                 tasks, bcasts, sendResult, sent, arrived, mark, drained,
                 evicted, ruleCalls>>
  /\ UNCHANGED wsVars
  /\ UNCHANGED agVars

SubCount ==
  LET RECURSIVE Sum(_)
      Sum(S) == IF S = {} THEN 0
                ELSE LET x == CHOOSE y \in S : TRUE
                     IN Len(subscribers[x]) + Sum(S \ {x})
  IN Sum(DOMAIN subscribers)

Subscribe(a, cb) ==
  /\ SubCount < MaxSubs
  /\ subscribers' = [Touch(subscribers, a) EXCEPT ![a] = Append(@, cb)]
  /\ UNCHANGED <<running, message_queues, message_history, routing_rules,
                 stats, tasks, bcasts, sendResult, sent, arrived, mark, drained,
                 evicted, ruleCalls, peeked, touched>>
  /\ UNCHANGED wsVars
  /\ UNCHANGED agVars

(* list.remove(x): drops the first occurrence *)
RemoveFirst(s, x) ==
  LET i == CHOOSE k \in 1..Len(s) : s[k] = x /\ \A j \in 1..(k - 1) : s[j] # x
  IN [j \in 1..(Len(s) - 1) |-> IF j < i THEN s[j] ELSE s[j + 1]]

Unsubscribe(a, cb) ==
  LET subs == Touch(subscribers, a) IN
  /\ subscribers' = IF \E k \in 1..Len(subs[a]) : subs[a][k] = cb
                      THEN [subs EXCEPT ![a] = RemoveFirst(@, cb)]
                      ELSE subs
  /\ UNCHANGED <<running, message_queues, message_history, routing_rules,
                 stats, tasks, bcasts, sendResult, sent, arrived, mark, drained,
                 evicted, ruleCalls, peeked, touched>>
  /\ UNCHANGED wsVars
  /\ UNCHANGED agVars

AddRoutingRule(a, rule) ==
  /\ routing_rules' = (a :> rule) @@ routing_rules
  /\ UNCHANGED <<running, message_queues, message_history, subscribers,
                 stats, tasks, bcasts, sendResult, sent, arrived, mark, drained,
                 evicted, ruleCalls, peeked, touched>>
  /\ UNCHANGED wsVars
  /\ UNCHANGED agVars

(* mutant: the clear drops the queue itself, as
   self.message_queues.pop(agent_id, None) would *)
ClearAgentQueue_Delete(a) ==
  /\ message_queues' = [x \in DOMAIN message_queues \ {a} |-> message_queues[x]]
  /\ mark' = [mark EXCEPT ![a] = Len(arrived[a])]
  /\ touched' = touched \cup {a}
  /\ UNCHANGED <<running, message_history, subscribers, routing_rules, stats,
                 tasks, bcasts, sendResult, sent, arrived, drained, evicted,
                 ruleCalls, peeked>>
  /\ UNCHANGED wsVars
  /\ UNCHANGED agVars

(* clear_agent_queue(agent_id): self.message_queues[agent_id].clear(); the
   defaultdict creates the queue of an agent that had none *)
ClearAgentQueue(a) ==
  /\ message_queues' = [Touch(message_queues, a) EXCEPT ![a] = <<>>]
  /\ mark' = [mark EXCEPT ![a] = Len(arrived[a])]
  /\ touched' = touched \cup {a}
  /\ UNCHANGED <<running, message_history, subscribers, routing_rules, stats,
                 tasks, bcasts, sendResult, sent, arrived, drained, evicted,
                 ruleCalls, peeked>>
  /\ UNCHANGED wsVars
  /\ UNCHANGED agVars

(* get_agent_queue_size(agent_id): len(self.message_queues[agent_id]); the
   defaultdict creates the queue of an agent that had none *)
GetAgentQueueSize(a) ==
  /\ message_queues' = Touch(message_queues, a)
  /\ touched' = touched \cup {a}
  /\ UNCHANGED <<running, message_history, subscribers, routing_rules, stats,
                 tasks, bcasts, sendResult, sent, arrived, mark, drained,
                 evicted, ruleCalls, peeked>>
  /\ UNCHANGED wsVars
  /\ UNCHANGED agVars

(* ============================ workspace =============================== *)
NONE == "None"                 \* Python's None
Keys == {"k1", "k2"}
WILDCARD == "*"
SetInputs ==                   \* the set(key, value, agent_id) calls issued
  { [key |-> "k1", value |-> "v1", agent_id |-> "A"],
    [key |-> "k1", value |-> "v2", agent_id |-> "B"],
    [key |-> "k2", value |-> "v1", agent_id |-> "B"],
    [key |-> "k2", value |-> NONE, agent_id |-> "A"] }

(* metadata.get(key, {}) of a key without metadata *)
NoMeta == [agent_id |-> Absent, timestamp |-> 0, operation |-> Absent,
           previous_value |-> Absent]

WsReturn(op, key, value, meta) ==
  [op |-> op, key |-> key, value |-> value, metadata |-> meta]

(* dict.get(key): None for a missing key *)
DictGet(d, k) == IF k \in DOMAIN d THEN d[k] ELSE NONE

Without(d, k) == [x \in DOMAIN d \ {k} |-> d[x]]

(* time.time(), read as the number of the change being made *)
Now == Len(change_history) + 1

(* mutant: the record holds the old and the new value the wrong way round *)
ChangeRecord_Swapped(key, op, agent, old, new) ==
  [key |-> key, operation |-> op, agent_id |-> agent, timestamp |-> Now,
   old_value |-> new, new_value |-> old]

ChangeRecord(key, op, agent, old, new) ==
  [key |-> key, operation |-> op, agent_id |-> agent, timestamp |-> Now,
   old_value |-> old, new_value |-> new]

(* self.subscribers[key] of the defaultdict: empty for a key never
   subscribed to *)
SubsOf(key) ==
  IF key \in DOMAIN ws_subscribers THEN ws_subscribers[key] ELSE <<>>

(* _notify_subscribers(key, record): one task per callback subscribed to the
   key, then one per callback subscribed to every change *)
NotesFor(key, n) ==
  [i \in 1..Len(SubsOf(key)) |->
     [cb |-> SubsOf(key)[i], rec |-> n, key |-> key, st |-> "pending"]]
  \o
  [i \in 1..Len(ws_subscribers[WILDCARD]) |->
     [cb |-> ws_subscribers[WILDCARD][i], rec |-> n, key |-> key, st |-> "pending"]]

(* what set(), delete() and clear() return once the change is made:
   _notify_subscribers ends with asyncio.create_task(asyncio.gather(...)),
   and create_task raises TypeError for what gather() returns, which is not a
   coroutine, whenever there is a task to gather; the caller catches it and
   returns False, with the change made and the notification tasks created *)
ResultAfterNotify(notes) == IF notes = <<>> THEN "True" ELSE "False"

(* the place of key k in the dict self.data: keys are kept in the order in
   which they were inserted, and the insertion of a stored key is its first
   set() since it was last deleted or cleared *)
InsertedPos(k) ==
  LET T == {p \in 1..Len(change_history) :
              change_history[p].key \in {k, WILDCARD}}
      live == {p \in T : \A q \in T : q >= p => change_history[q].operation = "set"}
  IN CHOOSE p \in live : \A q \in live : p <= q

(* list(self.data.keys()) *)
RECURSIVE DictOrder(_)
DictOrder(ks) ==
  IF ks = {} THEN <<>>
  ELSE LET k == CHOOSE x \in ks : \A y \in ks : InsertedPos(x) <= InsertedPos(y)
       IN <<k>> \o DictOrder(ks \ {k})

WsInit ==
  /\ data = <<>>
  /\ metadata = <<>>
  /\ change_history = <<>>
  /\ ws_subscribers = [k \in Keys \cup {WILDCARD} |-> <<>>]
  /\ locks = {}
  /\ ws_stats = [reads |-> 0, writes |-> 0, updates |-> 0, deletes |-> 0]
  /\ ws_notes = <<>>
  /\ ws_ret = WsReturn("init", Absent, NONE, NoMeta)
  /\ ws_calls = <<>>

(* asyncio.create_task(workspace.set(key, value, agent_id)): the call is
   issued; its body runs when the event loop reaches the task *)
SpawnSet(c) ==
  /\ Len(ws_calls) < MaxSets
  /\ ws_calls' = Append(ws_calls, [key |-> c.key, value |-> c.value,
                                   agent_id |-> c.agent_id,
                                   spawnedAt |-> Len(change_history),
                                   ranAt |-> 0])
  /\ UNCHANGED <<data, metadata, change_history, ws_subscribers, locks,
                 ws_stats, ws_notes, ws_ret>>
  /\ UNCHANGED busVars
  /\ UNCHANGED agVars

(* mutant: previous_value is taken after the new value is stored *)
PreviousValue_Late(k, v) == v

(* old_value = self.data.get(key), read before self.data[key] = value *)
PreviousValue(k, v) == DictGet(data, k)

(* mutant: one lock for the whole workspace, handed out in the order of the
   calls, so that a call waits for the earlier calls on other keys *)
Set_OneLock(i) ==
  LET c == ws_calls[i]
      old == PreviousValue(c.key, c.value)
      rec == ChangeRecord(c.key, "set", c.agent_id, old, c.value) IN
  /\ c.ranAt = 0
  /\ \A j \in 1..(i - 1) : ws_calls[j].ranAt > 0
  /\ Len(change_history) < MaxChanges
  /\ locks' = locks \cup {c.key}
  /\ data' = (c.key :> c.value) @@ data
  /\ metadata' = (c.key :> [agent_id |-> c.agent_id, timestamp |-> Now,
                            operation |-> "set", previous_value |-> old])
                   @@ metadata
  /\ change_history' = Append(change_history, rec)
  /\ ws_stats' = IF old = NONE THEN [ws_stats EXCEPT !.writes = @ + 1]
                 ELSE [ws_stats EXCEPT !.updates = @ + 1]
  /\ ws_notes' = ws_notes \o NotesFor(c.key, Now)
  /\ ws_ret' = WsReturn("set", c.key, ResultAfterNotify(NotesFor(c.key, Now)),
                        NoMeta)
  /\ ws_calls' = [ws_calls EXCEPT ![i].ranAt = Now]
  /\ UNCHANGED ws_subscribers
  /\ UNCHANGED busVars
  /\ UNCHANGED agVars

(* the body of set(): the lock of the key is free whenever a task asks for
   it, because no task is suspended while holding it *)
Set(i) ==
  LET c == ws_calls[i]
      old == PreviousValue(c.key, c.value)
      rec == ChangeRecord(c.key, "set", c.agent_id, old, c.value) IN
  /\ c.ranAt = 0
  /\ Len(change_history) < MaxChanges
  /\ locks' = locks \cup {c.key}
  /\ data' = (c.key :> c.value) @@ data
  /\ metadata' = (c.key :> [agent_id |-> c.agent_id, timestamp |-> Now,
                            operation |-> "set", previous_value |-> old])
                   @@ metadata
  /\ change_history' = Append(change_history, rec)
  /\ ws_stats' = IF old = NONE THEN [ws_stats EXCEPT !.writes = @ + 1]
                 ELSE [ws_stats EXCEPT !.updates = @ + 1]
  /\ ws_notes' = ws_notes \o NotesFor(c.key, Now)
  /\ ws_ret' = WsReturn("set", c.key, ResultAfterNotify(NotesFor(c.key, Now)),
                        NoMeta)
  /\ ws_calls' = [ws_calls EXCEPT ![i].ranAt = Now]
  /\ UNCHANGED ws_subscribers
  /\ UNCHANGED busVars
  /\ UNCHANGED agVars

(* mutant: a get of a missing key stores None under it *)
Get_StoreDefault(k) ==
  /\ ws_stats.reads < MaxReads
  /\ locks' = locks \cup {k}
  /\ ws_stats' = [ws_stats EXCEPT !.reads = @ + 1]
  /\ ws_ret' = WsReturn("get", k, DictGet(data, k), NoMeta)
  /\ data' = IF k \in DOMAIN data THEN data ELSE (k :> NONE) @@ data
  /\ UNCHANGED <<metadata, change_history, ws_subscribers, ws_notes,
                 ws_calls>>
  /\ UNCHANGED busVars
  /\ UNCHANGED agVars

(* get(key) *)
Get(k) ==
  /\ ws_stats.reads < MaxReads
  /\ locks' = locks \cup {k}
  /\ ws_stats' = [ws_stats EXCEPT !.reads = @ + 1]
  /\ ws_ret' = WsReturn("get", k, DictGet(data, k), NoMeta)
  /\ UNCHANGED <<data, metadata, change_history, ws_subscribers, ws_notes,
                 ws_calls>>
  /\ UNCHANGED busVars
  /\ UNCHANGED agVars

(* mutant: the metadata of the key is left out *)
GetWithMetadata_Stale(k) ==
  /\ locks' = locks \cup {k}
  /\ ws_ret' = WsReturn("get_with_metadata", k, DictGet(data, k), NoMeta)
  /\ UNCHANGED <<data, metadata, change_history, ws_subscribers, ws_stats,
                 ws_notes, ws_calls>>
  /\ UNCHANGED busVars
  /\ UNCHANGED agVars

(* get_with_metadata(key) *)
GetWithMetadata(k) ==
  /\ locks' = locks \cup {k}
  /\ ws_ret' = WsReturn("get_with_metadata", k, DictGet(data, k),
                        IF k \in DOMAIN metadata THEN metadata[k] ELSE NoMeta)
  /\ UNCHANGED <<data, metadata, change_history, ws_subscribers, ws_stats,
                 ws_notes, ws_calls>>
  /\ UNCHANGED busVars
  /\ UNCHANGED agVars

(* mutant: a delete of a missing key is recorded and counted like any other *)
Delete_RecordMissing(k, w) ==
  /\ locks' = locks \cup {k}
  /\ Len(change_history) < MaxChanges
  /\ data' = Without(data, k)
  /\ metadata' = Without(metadata, k)
  /\ change_history' =
       Append(change_history, ChangeRecord(k, "delete", w, DictGet(data, k), NONE))
  /\ ws_stats' = [ws_stats EXCEPT !.deletes = @ + 1]
  /\ ws_notes' = ws_notes \o NotesFor(k, Now)
  /\ ws_ret' = WsReturn("delete", k,
                        IF k \in DOMAIN data
                          THEN ResultAfterNotify(NotesFor(k, Now))
                        ELSE "False", NoMeta)
  /\ UNCHANGED <<ws_subscribers, ws_calls>>
  /\ UNCHANGED busVars
  /\ UNCHANGED agVars

(* delete(key, agent_id) *)
Delete(k, w) ==
  /\ locks' = locks \cup {k}
  /\ IF k \in DOMAIN data
       THEN /\ Len(change_history) < MaxChanges
            /\ data' = Without(data, k)
            /\ metadata' = Without(metadata, k)
            /\ change_history' =
                 Append(change_history, ChangeRecord(k, "delete", w, data[k], NONE))
            /\ ws_stats' = [ws_stats EXCEPT !.deletes = @ + 1]
            /\ ws_notes' = ws_notes \o NotesFor(k, Now)
            /\ ws_ret' = WsReturn("delete", k,
                                  ResultAfterNotify(NotesFor(k, Now)), NoMeta)
       ELSE /\ ws_ret' = WsReturn("delete", k, "False", NoMeta)
            /\ UNCHANGED <<data, metadata, change_history, ws_stats, ws_notes>>
  /\ UNCHANGED <<ws_subscribers, ws_calls>>
  /\ UNCHANGED busVars
  /\ UNCHANGED agVars

(* for key in old_keys: await self._notify_subscribers(key, change_record),
   from key number i of the list on: the first key that has a subscriber to
   notify gets its tasks and ends the loop with the TypeError of
   _notify_subscribers *)
RECURSIVE ClearNotes(_, _, _)
ClearNotes(order, n, i) ==
  IF i > Len(order) THEN <<>>
  ELSE IF NotesFor(order[i], n) # <<>> THEN NotesFor(order[i], n)
  ELSE ClearNotes(order, n, i + 1)

(* mutant: the clear empties the values and leaves the metadata *)
Clear_DataOnly(w) ==
  /\ Len(change_history) < MaxChanges
  /\ data' = <<>>
  /\ UNCHANGED metadata
  /\ change_history' =
       Append(change_history, ChangeRecord(WILDCARD, "clear", w, DOMAIN data, NONE))
  /\ ws_notes' = ws_notes \o ClearNotes(DictOrder(DOMAIN data), Now, 1)
  /\ ws_ret' = WsReturn("clear", WILDCARD,
                        ResultAfterNotify(ClearNotes(DictOrder(DOMAIN data), Now, 1)),
                        NoMeta)
  /\ UNCHANGED <<ws_subscribers, locks, ws_stats, ws_calls>>
  /\ UNCHANGED busVars
  /\ UNCHANGED agVars

(* clear(agent_id): takes no lock and writes one record, under the key "*" *)
Clear(w) ==
  /\ Len(change_history) < MaxChanges
  /\ data' = <<>>
  /\ metadata' = <<>>
  /\ change_history' =
       Append(change_history, ChangeRecord(WILDCARD, "clear", w, DOMAIN data, NONE))
  /\ ws_notes' = ws_notes \o ClearNotes(DictOrder(DOMAIN data), Now, 1)
  /\ ws_ret' = WsReturn("clear", WILDCARD,
                        ResultAfterNotify(ClearNotes(DictOrder(DOMAIN data), Now, 1)),
                        NoMeta)
  /\ UNCHANGED <<ws_subscribers, locks, ws_stats, ws_calls>>
  /\ UNCHANGED busVars
  /\ UNCHANGED agVars

(* the dicts handed to import_data, as the list of the items of data["data"] *)
ImportInputs ==
  { <<[key |-> "k1", value |-> "v1"], [key |-> "k2", value |-> "v2"]>>,
    <<[key |-> "k2", value |-> NONE]>>,
    <<>> }

(* for key, value in data["data"].items(): await self.set(key, value, agent_id),
   from item number i on; st is the workspace as the items before have left
   it. What a set() returns is not looked at. *)
RECURSIVE ImportFold(_, _, _, _)
ImportFold(items, i, w, st) ==
  IF i > Len(items) THEN st
  ELSE LET key == items[i].key
           value == items[i].value
           old == DictGet(st.data, key)
           n == Len(st.change_history) + 1
       IN ImportFold(items, i + 1, w,
            [data |-> (key :> value) @@ st.data,
             metadata |-> (key :> [agent_id |-> w, timestamp |-> n,
                                   operation |-> "set", previous_value |-> old])
                            @@ st.metadata,
             change_history |->
               Append(st.change_history,
                      [key |-> key, operation |-> "set", agent_id |-> w,
                       timestamp |-> n, old_value |-> old, new_value |-> value]),
             ws_stats |-> IF old = NONE
                            THEN [st.ws_stats EXCEPT !.writes = @ + 1]
                            ELSE [st.ws_stats EXCEPT !.updates = @ + 1],
             ws_notes |-> st.ws_notes \o NotesFor(key, n)])

(* import_data(data, agent_id): one set() per item; no set() suspends, so the
   whole import is one step. It returns None. *)
ImportData(items, w) ==
  LET end == ImportFold(items, 1, w,
               [data |-> data, metadata |-> metadata,
                change_history |-> change_history, ws_stats |-> ws_stats,
                ws_notes |-> ws_notes]) IN
  /\ Len(change_history) + Len(items) <= MaxChanges
  /\ locks' = locks \cup {items[i].key : i \in 1..Len(items)}
  /\ data' = end.data
  /\ metadata' = end.metadata
  /\ change_history' = end.change_history
  /\ ws_stats' = end.ws_stats
  /\ ws_notes' = end.ws_notes
  /\ ws_ret' = WsReturn("import_data", Absent, NONE, NoMeta)
  /\ UNCHANGED <<ws_subscribers, ws_calls>>
  /\ UNCHANGED busVars
  /\ UNCHANGED agVars

(* the keys subscribed to, and the callbacks: one that returns, one that
   raises *)
WsSubTargets == {"k1", WILDCARD}
WsCallbacks == {"w_ok", "w_fail"}

WsSubCount ==
  Len(ws_subscribers["k1"]) + Len(ws_subscribers["k2"])
    + Len(ws_subscribers[WILDCARD])

(* subscribe(key, callback) and subscribe_all(callback) *)
WsSubscribe(k, cb) ==
  /\ WsSubCount < MaxSubs
  /\ ws_subscribers' = [ws_subscribers EXCEPT ![k] = Append(@, cb)]
  /\ UNCHANGED <<data, metadata, change_history, locks, ws_stats, ws_notes,
                 ws_ret, ws_calls>>
  /\ UNCHANGED busVars
  /\ UNCHANGED agVars

(* _call_subscriber(callback, change_record), run as its own task: an
   exception of the callback is logged and goes no further *)
CallSubscriber(i) ==
  /\ ws_notes[i].st = "pending"
  /\ ws_notes' = [ws_notes EXCEPT
                    ![i].st = IF ws_notes[i].cb = "w_fail" THEN "failed" ELSE "done"]
  /\ UNCHANGED <<data, metadata, change_history, ws_subscribers, locks,
                 ws_stats, ws_ret, ws_calls>>
  /\ UNCHANGED busVars
  /\ UNCHANGED agVars

(* ============================ agent runtime =========================== *)
Runtimes == {"b", "c"}         \* the agents run as AsyncAgentBase runtimes
Served == {"b"}                \* the runtime that messages are sent to
AgentRole == "agent"           \* self.role
Outcomes == {"result", "empty", "raise"}   \* what process_message does
AgentInputs ==                 \* the messages sent to the runtime
  { MkInput("a", "b", "user", "ping", "x", AbsentId),
    MkInput("c", "b", "user", "ping", "y", <<"cid">>) }

AgInit ==
  /\ ag_status = [r \in Runtimes |-> "idle"]
  /\ ag_init = [r \in Runtimes |-> FALSE]
  /\ ag_listen = [r \in Runtimes |-> [pc |-> "none", batch |-> {}, starts |-> 0]]
  /\ ag_handlers = <<>>
  /\ ag_active = [r \in Runtimes |-> {}]
  /\ ag_stop = [r \in Runtimes |-> [pc |-> "none", wait |-> {}]]
  /\ ag_log = [r \in Runtimes |-> <<"idle">>]
  /\ mgr = [pc |-> "idle", at |-> 0, tasks |-> {},
            fails |-> [r \in Runtimes |-> "ok"]]

(* task.done() of a handling task *)
Finished(h) == ag_handlers[h].pc \in {"done", "raised"}

(* {task for task in self.active_tasks if not task.done()} *)
NotDone(hs) == {h \in hs : ~Finished(h)}

(* initialize(workspace, message_bus): the status is left as it is *)
Initialize(r) ==
  /\ ~ag_init[r] \/ ag_status[r] = "stopped"
  /\ ag_log[r][Len(ag_log[r])] # "initialize"
  /\ ag_init' = [ag_init EXCEPT ![r] = TRUE]
  /\ ag_log' = [ag_log EXCEPT ![r] = Append(@, "initialize")]
  /\ UNCHANGED <<ag_status, ag_listen, ag_handlers, ag_active, ag_stop>>
  /\ UNCHANGED mgr
  /\ UNCHANGED <<busVars, wsVars>>

(* asyncio.create_task(agent.start_listening()): the body runs when the event
   loop reaches the task *)
StartListening(r) ==
  /\ ag_init[r]
  /\ ag_listen[r].pc \in {"none", "exited"}
  /\ ag_listen[r].starts < MaxStarts
  /\ ag_listen' = [ag_listen EXCEPT ![r] = [pc |-> "ready", batch |-> {},
                                             starts |-> @.starts + 1]]
  /\ UNCHANGED <<ag_status, ag_init, ag_handlers, ag_active, ag_stop, ag_log>>
  /\ UNCHANGED mgr
  /\ UNCHANGED <<busVars, wsVars>>

(* the gather() of a suspended stop() is complete: stop() is ready to run,
   and runs before the timer of a sleep() started after it expires *)
StopReady(r) ==
  /\ ag_stop[r].pc = "waiting"
  /\ \A h \in ag_stop[r].wait : Finished(h)

(* mutant: the loop is "while True": a pass drains whatever the status is *)
ListenStep_NoCheck(r) ==
  LET first == ag_listen[r].pc = "ready"
      st == IF first THEN "listening" ELSE ag_status[r]
      q == QueueOf(message_queues, r)
      n == Len(ag_handlers)
      idx == (n + 1)..(n + Len(q)) IN
  /\ ag_listen[r].pc \in {"ready", "sleep"}
  /\ ag_listen[r].pc = "sleep" => ~StopReady(r)
  /\ ag_status' = [ag_status EXCEPT ![r] = st]
  /\ ag_log' = IF first THEN [ag_log EXCEPT ![r] = Append(@, "listening")]
               ELSE ag_log
  /\ IF TRUE
       THEN /\ message_queues' = [Touch(message_queues, r) EXCEPT ![r] = <<>>]
            /\ touched' = touched \cup {r}
            /\ drained' = IF q = <<>> THEN drained
                          ELSE [drained EXCEPT ![r] = Append(@, q)]
            /\ mark' = [mark EXCEPT ![r] = Len(arrived[r])]
            /\ ag_handlers' = ag_handlers \o
                 [i \in 1..Len(q) |-> [rt |-> r, msg |-> q[i], pc |-> "created",
                                       batch |-> Len(drained[r]) + 1,
                                       outcome |-> "none", published |-> <<>>]]
            /\ IF q # <<>>
                 THEN /\ ag_active' = [ag_active EXCEPT ![r] = @ \cup idx]
                      /\ ag_listen' = [ag_listen EXCEPT ![r].pc = "gather",
                                                        ![r].batch = idx]
                 ELSE /\ ag_active' = [ag_active EXCEPT ![r] = NotDone(@)]
                      /\ ag_listen' = [ag_listen EXCEPT ![r].pc = "sleep"]
       ELSE /\ ag_listen' = [ag_listen EXCEPT ![r].pc = "exited"]
            /\ UNCHANGED <<message_queues, drained, mark, ag_handlers, ag_active,
                           touched>>
  /\ UNCHANGED <<ag_init, ag_stop>>
  /\ UNCHANGED mgr
  /\ UNCHANGED <<running, message_history, subscribers, routing_rules, stats,
                 tasks, bcasts, sendResult, sent, arrived, evicted, ruleCalls, peeked>>
  /\ UNCHANGED wsVars

(* mutant: the loop does not poll: a pass that finds the queue empty ends
   the task, with the status left "listening" *)
ListenStep_Once(r) ==
  LET first == ag_listen[r].pc = "ready"
      st == IF first THEN "listening" ELSE ag_status[r]
      q == QueueOf(message_queues, r)
      n == Len(ag_handlers)
      idx == (n + 1)..(n + Len(q)) IN
  /\ ag_listen[r].pc \in {"ready", "sleep"}
  /\ ag_listen[r].pc = "sleep" => ~StopReady(r)
  /\ ag_status' = [ag_status EXCEPT ![r] = st]
  /\ ag_log' = IF first THEN [ag_log EXCEPT ![r] = Append(@, "listening")]
               ELSE ag_log
  /\ IF st = "listening"
       THEN /\ message_queues' = [Touch(message_queues, r) EXCEPT ![r] = <<>>]
            /\ touched' = touched \cup {r}
            /\ drained' = IF q = <<>> THEN drained
                          ELSE [drained EXCEPT ![r] = Append(@, q)]
            /\ mark' = [mark EXCEPT ![r] = Len(arrived[r])]
            /\ ag_handlers' = ag_handlers \o
                 [i \in 1..Len(q) |-> [rt |-> r, msg |-> q[i], pc |-> "created",
                                       batch |-> Len(drained[r]) + 1,
                                       outcome |-> "none", published |-> <<>>]]
            /\ IF q # <<>>
                 THEN /\ ag_active' = [ag_active EXCEPT ![r] = @ \cup idx]
                      /\ ag_listen' = [ag_listen EXCEPT ![r].pc = "gather",
                                                        ![r].batch = idx]
                 ELSE /\ ag_active' = [ag_active EXCEPT ![r] = NotDone(@)]
                      /\ ag_listen' = [ag_listen EXCEPT ![r].pc = "exited"]
       ELSE /\ ag_listen' = [ag_listen EXCEPT ![r].pc = "exited"]
            /\ UNCHANGED <<message_queues, drained, mark, ag_handlers, ag_active,
                           touched>>
  /\ UNCHANGED <<ag_init, ag_stop>>
  /\ UNCHANGED mgr
  /\ UNCHANGED <<running, message_history, subscribers, routing_rules, stats,
                 tasks, bcasts, sendResult, sent, arrived, evicted, ruleCalls, peeked>>
  /\ UNCHANGED wsVars

(* one pass of the loop of start_listening(), from the point the task is
   resumed (at its start, or out of sleep) to its next suspension: the status
   is set on the first pass, the queue is drained while the status is
   "listening", a task is created for every message, and the loop suspends in
   gather() or, with nothing to handle, in sleep() *)
ListenStep(r) ==
  LET first == ag_listen[r].pc = "ready"
      st == IF first THEN "listening" ELSE ag_status[r]
      q == QueueOf(message_queues, r)
      n == Len(ag_handlers)
      idx == (n + 1)..(n + Len(q)) IN
  /\ ag_listen[r].pc \in {"ready", "sleep"}
  /\ ag_listen[r].pc = "sleep" => ~StopReady(r)
  /\ ag_status' = [ag_status EXCEPT ![r] = st]
  /\ ag_log' = IF first THEN [ag_log EXCEPT ![r] = Append(@, "listening")]
               ELSE ag_log
  /\ IF st = "listening"
       THEN /\ message_queues' = [Touch(message_queues, r) EXCEPT ![r] = <<>>]
            /\ touched' = touched \cup {r}
            /\ drained' = IF q = <<>> THEN drained
                          ELSE [drained EXCEPT ![r] = Append(@, q)]
            /\ mark' = [mark EXCEPT ![r] = Len(arrived[r])]
            /\ ag_handlers' = ag_handlers \o
                 [i \in 1..Len(q) |-> [rt |-> r, msg |-> q[i], pc |-> "created",
                                       batch |-> Len(drained[r]) + 1,
                                       outcome |-> "none", published |-> <<>>]]
            /\ IF q # <<>>
                 THEN /\ ag_active' = [ag_active EXCEPT ![r] = @ \cup idx]
                      /\ ag_listen' = [ag_listen EXCEPT ![r].pc = "gather",
                                                        ![r].batch = idx]
                 ELSE /\ ag_active' = [ag_active EXCEPT ![r] = NotDone(@)]
                      /\ ag_listen' = [ag_listen EXCEPT ![r].pc = "sleep"]
       ELSE /\ ag_listen' = [ag_listen EXCEPT ![r].pc = "exited"]
            /\ UNCHANGED <<message_queues, drained, mark, ag_handlers, ag_active,
                           touched>>
  /\ UNCHANGED <<ag_init, ag_stop>>
  /\ UNCHANGED mgr
  /\ UNCHANGED <<running, message_history, subscribers, routing_rules, stats,
                 tasks, bcasts, sendResult, sent, arrived, evicted, ruleCalls, peeked>>
  /\ UNCHANGED wsVars

(* mutant: the loop does not wait for the batch: it goes on to sleep() and
   to its next pass with handling tasks still running *)
GatherReturn_NoWait(r) ==
  /\ ag_listen[r].pc = "gather"
  /\ ag_active' = [ag_active EXCEPT ![r] = NotDone(@)]
  /\ ag_listen' = [ag_listen EXCEPT ![r].pc = "sleep", ![r].batch = {}]
  /\ UNCHANGED <<ag_status, ag_init, ag_handlers, ag_stop, ag_log>>
  /\ UNCHANGED mgr
  /\ UNCHANGED <<busVars, wsVars>>

(* gather() of the batch has returned: the finished tasks are dropped
   from active_tasks and the loop suspends in sleep() *)
GatherReturn(r) ==
  /\ ag_listen[r].pc = "gather"
  /\ \A h \in ag_listen[r].batch : Finished(h)
  /\ ag_active' = [ag_active EXCEPT ![r] = NotDone(@)]
  /\ ag_listen' = [ag_listen EXCEPT ![r].pc = "sleep", ![r].batch = {}]
  /\ UNCHANGED <<ag_status, ag_init, ag_handlers, ag_stop, ag_log>>
  /\ UNCHANGED mgr
  /\ UNCHANGED <<busVars, wsVars>>

(* f"agent_status_{agent_id}" *)
StatusKey(r) == "agent_status_" \o r

(* mutant: the messages of a batch are handled one after the other: a task
   starts when the earlier tasks of its batch have finished *)
HandlerBegin_Serial(h) ==
  LET r == ag_handlers[h].rt
      key == StatusKey(r)
      value == "processing_" \o ToString(h)
      old == DictGet(data, key)
      rec == ChangeRecord(key, "set", r, old, value) IN
  /\ ag_handlers[h].pc = "created"
  /\ \A g \in 1..(h - 1) :
       (ag_handlers[g].rt = r /\ ag_handlers[g].batch = ag_handlers[h].batch)
         => Finished(g)
  /\ ag_handlers' = [ag_handlers EXCEPT ![h].pc = "processing"]
  /\ locks' = locks \cup {key}
  /\ data' = (key :> value) @@ data
  /\ metadata' = (key :> [agent_id |-> r, timestamp |-> Now,
                          operation |-> "set", previous_value |-> old])
                   @@ metadata
  /\ change_history' = Append(change_history, rec)
  /\ ws_stats' = IF old = NONE THEN [ws_stats EXCEPT !.writes = @ + 1]
                 ELSE [ws_stats EXCEPT !.updates = @ + 1]
  /\ ws_notes' = ws_notes \o NotesFor(key, Now)
  /\ ws_ret' = WsReturn("set", key, ResultAfterNotify(NotesFor(key, Now)), NoMeta)
  /\ UNCHANGED <<ws_subscribers, ws_calls>>
  /\ UNCHANGED <<ag_status, ag_init, ag_listen, ag_active, ag_stop, ag_log>>
  /\ UNCHANGED mgr
  /\ UNCHANGED busVars

(* _process_message_async up to its await of process_message: the
   "processing_<task id>" status is written to the workspace by
   update_agent_status, which is a set() *)
HandlerBegin(h) ==
  LET r == ag_handlers[h].rt
      key == StatusKey(r)
      value == "processing_" \o ToString(h)
      old == DictGet(data, key)
      rec == ChangeRecord(key, "set", r, old, value) IN
  /\ ag_handlers[h].pc = "created"
  /\ ag_handlers' = [ag_handlers EXCEPT ![h].pc = "processing"]
  /\ locks' = locks \cup {key}
  /\ data' = (key :> value) @@ data
  /\ metadata' = (key :> [agent_id |-> r, timestamp |-> Now,
                          operation |-> "set", previous_value |-> old])
                   @@ metadata
  /\ change_history' = Append(change_history, rec)
  /\ ws_stats' = IF old = NONE THEN [ws_stats EXCEPT !.writes = @ + 1]
                 ELSE [ws_stats EXCEPT !.updates = @ + 1]
  /\ ws_notes' = ws_notes \o NotesFor(key, Now)
  /\ ws_ret' = WsReturn("set", key, ResultAfterNotify(NotesFor(key, Now)), NoMeta)
  /\ UNCHANGED <<ws_subscribers, ws_calls>>
  /\ UNCHANGED <<ag_status, ag_init, ag_listen, ag_active, ag_stop, ag_log>>
  /\ UNCHANGED mgr
  /\ UNCHANGED busVars

(* the dict send_response builds: content "result" stands for what
   process_message returned, "error" for {"error": ..., "status": "failed"} *)
Response(r, original, content) ==
  [sender |-> r, recipient |-> original.sender, role |-> AgentRole,
   intent |-> "response", content |-> content, message_id |-> AbsentId,
   timestamp |-> Len(sent) + 1, oid |-> 0,
   original_message_id |-> original.message_id]

(* message_bus.send_message(m) of a valid message on a running bus, for a
   recipient without routing rule *)
Publish(m) ==
  LET msg == SetDefaults(m, Len(sent) + 1) IN
  /\ message_history' = HistoryAppend(message_history, msg)
  /\ sent' = Append(sent, [input |-> m, ruled |-> FALSE, known |-> {}])
  /\ DeliverMessage(msg, msg.recipient, 1)
  /\ sendResult' = Result("ok", NoMsg)
  /\ UNCHANGED <<running, subscribers, routing_rules, mark, drained, bcasts,
                 ruleCalls, peeked>>

(* mutant: an empty result is answered like any other *)
HandlerFinish_AnswerEmpty(h, o) ==
  LET hd == ag_handlers[h]
      content == IF o = "raise" THEN "error" ELSE "result"
      resp == Response(hd.rt, hd.msg, content) IN
  /\ hd.pc = "processing"
  /\ hd.msg.sender \notin DOMAIN routing_rules
  /\ running
  /\ Publish(resp)
  /\ ag_handlers' = [ag_handlers EXCEPT
                       ![h].pc = "done",
                       ![h].outcome = o,
                       ![h].published = <<[kind |-> content,
                                           oid |-> Len(sent) + 1]>>]
  /\ UNCHANGED <<ag_status, ag_init, ag_listen, ag_active, ag_stop, ag_log>>
  /\ UNCHANGED mgr
  /\ UNCHANGED wsVars

(* mutant: what process_message raises is not caught: nothing is sent and the
   exception ends the task *)
HandlerFinish_Uncaught(h, o) ==
  LET hd == ag_handlers[h]
      resp == Response(hd.rt, hd.msg, "result") IN
  /\ hd.pc = "processing"
  /\ hd.msg.sender \notin DOMAIN routing_rules
  /\ running
  /\ IF o = "result"
       THEN /\ Publish(resp)
            /\ ag_handlers' = [ag_handlers EXCEPT
                                 ![h].pc = "done",
                                 ![h].outcome = o,
                                 ![h].published = <<[kind |-> "result",
                                                     oid |-> Len(sent) + 1]>>]
       ELSE /\ ag_handlers' = [ag_handlers EXCEPT
                                 ![h].pc = IF o = "raise" THEN "raised" ELSE "done",
                                 ![h].outcome = o]
            /\ UNCHANGED busVars
  /\ UNCHANGED <<ag_status, ag_init, ag_listen, ag_active, ag_stop, ag_log>>
  /\ UNCHANGED mgr
  /\ UNCHANGED wsVars

(* _process_message_async from the return of process_message to the end of
   the task. o is what process_message did. A result that is not empty is
   sent by send_response; an exception is answered by send_error_response;
   when the bus refuses the send (it is not running), the exception of
   send_message is raised again by send_error_response and ends the task *)
HandlerFinish(h, o) ==
  LET hd == ag_handlers[h]
      content == IF o = "result" THEN "result" ELSE "error"
      resp == Response(hd.rt, hd.msg, content) IN
  /\ hd.pc = "processing"
  /\ hd.msg.sender \notin DOMAIN routing_rules
  /\ IF o = "empty"
       THEN /\ ag_handlers' = [ag_handlers EXCEPT ![h].pc = "done",
                                                  ![h].outcome = o]
            /\ UNCHANGED busVars
       ELSE IF running
         THEN /\ Publish(resp)
              /\ ag_handlers' = [ag_handlers EXCEPT
                                   ![h].pc = "done",
                                   ![h].outcome = o,
                                   ![h].published = <<[kind |-> content,
                                                       oid |-> Len(sent) + 1]>>]
         ELSE /\ sendResult' = Result("RuntimeError", resp)
              /\ ag_handlers' = [ag_handlers EXCEPT ![h].pc = "raised",
                                                    ![h].outcome = o]
              /\ UNCHANGED <<running, message_queues, message_history,
                             subscribers, routing_rules, stats, tasks, bcasts,
                             sent, arrived, mark, drained, evicted, ruleCalls, peeked, touched>>
  /\ UNCHANGED <<ag_status, ag_init, ag_listen, ag_active, ag_stop, ag_log>>
  /\ UNCHANGED mgr
  /\ UNCHANGED wsVars

(* mutant: stop() does not wait for the handling tasks *)
AgentStop_NoWait(r) ==
  /\ ag_stop[r].pc = "none"
  /\ ag_status' = [ag_status EXCEPT ![r] = "stopped"]
  /\ ag_log' = [ag_log EXCEPT ![r] = @ \o <<"stopping", "stopped">>]
  /\ ag_stop' = [ag_stop EXCEPT ![r].pc = "returned"]
  /\ UNCHANGED <<ag_init, ag_listen, ag_handlers, ag_active>>
  /\ UNCHANGED mgr
  /\ UNCHANGED <<busVars, wsVars>>

(* stop() up to its suspension: the status becomes "stopping"; with no active
   task the call goes on to "stopped" and returns, otherwise it suspends in
   gather() over the active tasks *)
AgentStop(r) ==
  /\ ag_stop[r].pc = "none"
  /\ IF ag_active[r] = {}
       THEN /\ ag_status' = [ag_status EXCEPT ![r] = "stopped"]
            /\ ag_log' = [ag_log EXCEPT ![r] = @ \o <<"stopping", "stopped">>]
            /\ ag_stop' = [ag_stop EXCEPT ![r].pc = "returned"]
       ELSE /\ ag_status' = [ag_status EXCEPT ![r] = "stopping"]
            /\ ag_log' = [ag_log EXCEPT ![r] = Append(@, "stopping")]
            /\ ag_stop' = [ag_stop EXCEPT ![r] = [pc |-> "waiting",
                                                  wait |-> ag_active[r]]]
  /\ UNCHANGED <<ag_init, ag_listen, ag_handlers, ag_active>>
  /\ UNCHANGED mgr
  /\ UNCHANGED <<busVars, wsVars>>

(* gather() of stop() has returned: every task waited for is done, and the
   listen loop, which waited for them first, has been resumed first *)
StopReturn(r) ==
  /\ ag_stop[r].pc = "waiting"
  /\ \A h \in ag_stop[r].wait : Finished(h)
  /\ ag_listen[r].pc # "gather"
  /\ ag_status' = [ag_status EXCEPT ![r] = "stopped"]
  /\ ag_log' = [ag_log EXCEPT ![r] = Append(@, "stopped")]
  /\ ag_stop' = [ag_stop EXCEPT ![r].pc = "returned"]
  /\ UNCHANGED <<ag_init, ag_listen, ag_handlers, ag_active>>
  /\ UNCHANGED mgr
  /\ UNCHANGED <<busVars, wsVars>>

(* ------------------- the agent-status wrappers ------------------------ *)
StatusPrefix == "agent_status_"
StatusAgents == {"x", "y", StatusPrefix \o "x"}   \* the agent ids given
StatusValues == {"working", "idle"}               \* the statuses given
PlainKey == "note"                                \* a key outside the namespace

(* The keys of this part of the model are the strings made of at most
   MaxTokens of these pieces; the string operations of the code are computed
   on the pieces. *)
MaxTokens == 3
NameTokens == {StatusPrefix, "x", "y", PlainKey}
TokenSeqs == UNION {[1..n -> NameTokens] : n \in 0..MaxTokens}

RECURSIVE Join(_)
Join(ts) == IF ts = <<>> THEN "" ELSE Head(ts) \o Join(Tail(ts))

Parse(str) == CHOOSE ts \in TokenSeqs : Join(ts) = str

(* key.startswith("agent_status_") *)
StartsWithPrefix(key) ==
  LET ts == Parse(key) IN ts # <<>> /\ ts[1] = StatusPrefix

(* key.replace("agent_status_", ""): every occurrence is removed *)
ReplacePrefix(key) ==
  LET NotPrefix(t) == t # StatusPrefix IN
  Join(SelectSeq(Parse(key), NotPrefix))

(* {"status": status, "timestamp": time.time(), "metadata": metadata or {}} *)
StatusData(status) == [status |-> status, timestamp |-> Now, metadata |-> <<>>]

(* await self.set(key, value, agent_id) with a value that is a dict, so that
   old_value is None exactly when the key is absent *)
SetDict(key, value, agent) ==
  LET old == DictGet(data, key)
      rec == ChangeRecord(key, "set", agent, old, value) IN
  /\ Len(change_history) < MaxChanges
  /\ locks' = locks \cup {key}
  /\ data' = (key :> value) @@ data
  /\ metadata' = (key :> [agent_id |-> agent, timestamp |-> Now,
                          operation |-> "set", previous_value |-> old])
                   @@ metadata
  /\ change_history' = Append(change_history, rec)
  /\ ws_stats' = IF key \notin DOMAIN data
                   THEN [ws_stats EXCEPT !.writes = @ + 1]
                 ELSE [ws_stats EXCEPT !.updates = @ + 1]
  /\ ws_notes' = ws_notes \o NotesFor(key, Now)
  /\ ws_calls' = Append(ws_calls, [key |-> key, value |-> value,
                                   agent_id |-> agent,
                                   spawnedAt |-> Len(change_history),
                                   ranAt |-> Now])
  /\ UNCHANGED ws_subscribers
  /\ UNCHANGED busVars
  /\ UNCHANGED agVars

(* workspace.set(key, value, agent_id) on a key outside the namespace *)
SetPlain(a, s) ==
  /\ SetDict(PlainKey, StatusData(s), a)
  /\ ws_ret' = WsReturn("set", PlainKey,
                        ResultAfterNotify(NotesFor(PlainKey, Now)), NoMeta)

(* update_agent_status(agent_id, status): a set() of the status key; the
   call returns nothing *)
UpdateAgentStatus(a, s) ==
  /\ SetDict(StatusKey(a), StatusData(s), a)
  /\ ws_ret' = WsReturn("update_agent_status", StatusKey(a), NONE, NoMeta)

(* get_agent_status(agent_id): a get() of the status key *)
GetAgentStatus(a) ==
  /\ ws_stats.reads < MaxReads
  /\ locks' = locks \cup {StatusKey(a)}
  /\ ws_stats' = [ws_stats EXCEPT !.reads = @ + 1]
  /\ ws_ret' = WsReturn("get_agent_status", StatusKey(a),
                        DictGet(data, StatusKey(a)), NoMeta)
  /\ UNCHANGED <<data, metadata, change_history, ws_subscribers, ws_notes,
                 ws_calls>>
  /\ UNCHANGED busVars
  /\ UNCHANGED agVars

(* the dict get_all_agent_statuses() builds: the keys of the namespace are
   gone through in dict order, and a later key that gives the same agent id
   takes the place of an earlier one *)
AllStatuses ==
  LET ks == {k \in DOMAIN data : StartsWithPrefix(k)}
      ids == {ReplacePrefix(k) : k \in ks}
      LastKey(id) == CHOOSE k \in ks :
                       /\ ReplacePrefix(k) = id
                       /\ \A j \in ks : ReplacePrefix(j) = id
                                           => InsertedPos(j) <= InsertedPos(k)
  IN [id \in ids |-> data[LastKey(id)]]

GetAllAgentStatuses ==
  /\ ws_ret' = WsReturn("get_all_agent_statuses", Absent, AllStatuses, NoMeta)
  /\ UNCHANGED <<data, metadata, change_history, ws_subscribers, locks,
                 ws_stats, ws_notes, ws_calls>>
  /\ UNCHANGED busVars
  /\ UNCHANGED agVars

(* --------------------------- the manager ------------------------------ *)
(* self.agents, in the order of the add_agent calls *)
ManagerOrder == <<"b", "c">>

(* what the stop() of a runtime does when it is called: the stop() of
   AsyncAgentBase, or an override of a subclass that raises *)
StopOutcomes == {"ok", "raise"}

(* start_all_agents(): one start_listening() task per registered runtime,
   kept in agent_tasks *)
StartAll ==
  /\ mgr.pc = "idle"
  /\ mgr.tasks = {}
  /\ \A r \in Runtimes : ag_init[r] /\ ag_listen[r].pc = "none"
  /\ ag_listen' = [r \in Runtimes |-> [pc |-> "ready", batch |-> {},
                                       starts |-> ag_listen[r].starts + 1]]
  /\ mgr' = [mgr EXCEPT !.tasks = Runtimes]
  /\ UNCHANGED <<ag_status, ag_init, ag_handlers, ag_active, ag_stop, ag_log>>
  /\ UNCHANGED <<busVars, wsVars>>

(* for agent in self.agents.values(): await agent.stop() -- from runtime
   number i on, up to the next suspension: a stop() that finds no active task
   returns at once and the loop goes on; one that finds some suspends in its
   gather(); one that raises ends stop_all_agents() with that exception. The
   result is the status, the log and the stop() calls of the runtimes, and
   where the manager stands: "cancel" when the loop is through *)
RECURSIVE StopLoop(_, _, _, _, _)
StopLoop(i, f, st, lg, sp) ==
  IF i > Len(ManagerOrder)
    THEN [status |-> st, log |-> lg, stop |-> sp, pc |-> "cancel", at |-> i]
  ELSE LET r == ManagerOrder[i] IN
    IF f[r] = "raise"
      THEN [status |-> st, log |-> lg, stop |-> sp, pc |-> "raised", at |-> i]
    ELSE IF ag_active[r] = {}
      THEN StopLoop(i + 1, f, [st EXCEPT ![r] = "stopped"],
                    [lg EXCEPT ![r] = @ \o <<"stopping", "stopped">>],
                    [sp EXCEPT ![r].pc = "returned"])
    ELSE [status |-> [st EXCEPT ![r] = "stopping"],
          log |-> [lg EXCEPT ![r] = Append(@, "stopping")],
          stop |-> [sp EXCEPT ![r] = [pc |-> "waiting", wait |-> ag_active[r]]],
          pc |-> "stopping", at |-> i]

(* task.cancel() for every task of agent_tasks: a listen task that has not
   ended is cancelled at the point where it is suspended, and a gather() it
   is suspended in cancels the handling tasks it waits for *)
CancelListen(ls) ==
  [r \in Runtimes |->
     IF r \in mgr.tasks /\ ls[r].pc \in {"ready", "sleep", "gather"}
       THEN [ls[r] EXCEPT !.pc = "cancelled"] ELSE ls[r]]

CancelHandlers(hs) ==
  [h \in 1..Len(hs) |->
     IF /\ hs[h].rt \in mgr.tasks
        /\ ag_listen[hs[h].rt].pc = "gather"
        /\ h \in ag_listen[hs[h].rt].batch
        /\ ~Finished(h)
       THEN [hs[h] EXCEPT !.pc = "cancelled"] ELSE hs[h]]

(* what stop_all_agents() does from the result of the loop on: with the loop
   through, it cancels the listen tasks and suspends in gather() over them *)
StopAllGoOn(res, f) ==
  /\ ag_status' = res.status
  /\ ag_log' = res.log
  /\ ag_stop' = res.stop
  /\ IF res.pc = "cancel"
       THEN /\ ag_listen' = CancelListen(ag_listen)
            /\ ag_handlers' = CancelHandlers(ag_handlers)
            /\ mgr' = [mgr EXCEPT !.pc = IF mgr.tasks = {} THEN "returned"
                                         ELSE "gather",
                                  !.at = res.at, !.fails = f]
       ELSE /\ mgr' = [mgr EXCEPT !.pc = res.pc, !.at = res.at, !.fails = f]
            /\ UNCHANGED <<ag_listen, ag_handlers>>
  /\ UNCHANGED <<ag_init, ag_active>>
  /\ UNCHANGED <<busVars, wsVars>>

(* stop_all_agents() is called; f says what the stop() of each runtime does *)
StopAll(f) ==
  /\ mgr.pc = "idle"
  /\ \A r \in Runtimes : ag_stop[r].pc = "none"
  /\ StopAllGoOn(StopLoop(1, f, ag_status, ag_log, ag_stop), f)

(* the stop() the manager is suspended in returns (as StopReturn), and the
   loop goes on with the next runtime *)
StopAllResume ==
  LET r == ManagerOrder[mgr.at] IN
  /\ mgr.pc = "stopping"
  /\ StopReady(r)
  /\ ag_listen[r].pc # "gather"
  /\ StopAllGoOn(StopLoop(mgr.at + 1, mgr.fails,
                          [ag_status EXCEPT ![r] = "stopped"],
                          [ag_log EXCEPT ![r] = Append(@, "stopped")],
                          [ag_stop EXCEPT ![r].pc = "returned"]), mgr.fails)

(* the gather() over the cancelled listen tasks returns, and with it
   stop_all_agents() *)
StopAllReturn ==
  /\ mgr.pc = "gather"
  /\ \A r \in mgr.tasks : ag_listen[r].pc \in {"cancelled", "exited"}
  /\ mgr' = [mgr EXCEPT !.pc = "returned"]
  /\ UNCHANGED <<ag_status, ag_init, ag_listen, ag_handlers, ag_active,
                 ag_stop, ag_log>>
  /\ UNCHANGED <<busVars, wsVars>>

(* ------------------------- specifications ----------------------------- *)
Init == BusInit /\ WsInit /\ AgInit

(* Queues, routing and broadcast on a started bus. *)
Next ==
  \/ Start
  \/ \E m \in ValidInputs : SendDirect(m)
  \/ \E m \in ValidInputs : SendRouted(m)
  \/ \E m \in ValidInputs : SendBroadcast(m)
  \/ \E a \in Agents : BroadcastDeliver(a)
  \/ BroadcastReturn
  \/ \E a \in Agents : GetMessagesForAgent(a)
  \/ \E a \in RuleTargets, rule \in Rules : AddRoutingRule(a, rule)

Spec == Init /\ [][Next]_vars

(* Rejected sends among accepted ones, with subscribers and routing rules. *)
NextErr ==
  \/ Start
  \/ \E m \in Inputs : SendNotRunning(m)
  \/ \E m \in Inputs : SendInvalid(m)
  \/ \E m \in Inputs : SendDirect(m)
  \/ \E m \in Inputs : SendRouted(m)
  \/ \E i \in 1..Len(tasks) : NotifySubscriber(i)
  \/ \E a \in SubTargets, cb \in Callbacks : Subscribe(a, cb)
  \/ \E a \in RuleTargets, rule \in Rules : AddRoutingRule(a, rule)

SpecErr == Init /\ [][NextErr]_vars

(* Subscribers and their notification tasks. *)
NextSub ==
  \/ Start
  \/ Stop
  \/ \E m \in ValidInputs : SendDirect(m)
  \/ \E i \in 1..Len(tasks) : NotifySubscriber(i)
  \/ \E a \in SubTargets, cb \in Callbacks : Subscribe(a, cb)

SpecSub == Init /\ [][NextSub]_vars

(* The same under the event loop's scheduling: a notification task that is
   ready is run; nothing obliges a caller to send, subscribe, start or stop. *)
SpecSubLive == SpecSub /\ WF_vars(\E i \in 1..Len(tasks) : NotifySubscriber(i))

(* The workspace: set() calls issued as tasks, reads, deletes and clears. *)
NextWs ==
  \/ \E c \in SetInputs : SpawnSet(c)
  \/ \E i \in 1..Len(ws_calls) : Set(i)
  \/ \E k \in Keys : Get(k)
  \/ \E k \in Keys : GetWithMetadata(k)
  \/ \E k \in Keys : Delete(k, "A")
  \/ Clear("B")

SpecWs == Init /\ [][NextWs]_vars

(* The workspace written by set(), delete(), clear() and import_data(). *)
NextImport ==
  \/ \E c \in SetInputs : SpawnSet(c)
  \/ \E i \in 1..Len(ws_calls) : Set(i)
  \/ \E k \in Keys : Delete(k, "A")
  \/ Clear("B")
  \/ \E items \in ImportInputs : ImportData(items, "C")

SpecImport == Init /\ [][NextImport]_vars

(* The workspace with change subscribers and their notification tasks. *)
NoteInputs == {c \in SetInputs : c.value = "v1"}

NextNote ==
  \/ \E c \in NoteInputs : SpawnSet(c)
  \/ \E i \in 1..Len(ws_calls) : Set(i)
  \/ \E k \in Keys : Delete(k, "A")
  \/ Clear("B")
  \/ \E k \in WsSubTargets, cb \in WsCallbacks : WsSubscribe(k, cb)
  \/ \E i \in 1..Len(ws_notes) : CallSubscriber(i)

SpecNote == Init /\ [][NextNote]_vars

(* A runtime on a bus that is started and stopped: messages sent to it, its listen loop, its
   handling tasks and its stop(). *)
NextAgent ==
  \/ Start
  \/ Stop
  \/ \E m \in AgentInputs : SendDirect(m)
  \/ \E r \in Served : Initialize(r)
  \/ \E r \in Served : StartListening(r)
  \/ \E r \in Served : ListenStep(r)
  \/ \E r \in Served : GatherReturn(r)
  \/ \E h \in 1..Len(ag_handlers) : HandlerBegin(h)
  \/ \E h \in 1..Len(ag_handlers), o \in Outcomes : HandlerFinish(h, o)
  \/ \E r \in Served : AgentStop(r)
  \/ \E r \in Served : StopReturn(r)

SpecAgent == Init /\ [][NextAgent]_vars

(* The flow from a send to the response: one runtime on a running bus, under
   the scheduling of the event loop. A task that is ready is run and a timer
   that was set expires, so the loop, its gather(), the start of a handling
   task and the resumption of stop() are weakly fair; process_message is
   taken to return or raise, so the end of a handling task is weakly fair.
   Nothing obliges a caller to send, to start the loop or to stop it. *)
FlowInputs == {m \in AgentInputs : m.sender = "a"}

FlowHandlers == 1..MaxSends

NextFlow ==
  \/ Start
  \/ \E m \in FlowInputs : SendDirect(m)
  \/ \E r \in Served : Initialize(r)
  \/ \E r \in Served : StartListening(r)
  \/ \E r \in Served : ListenStep(r)
  \/ \E r \in Served : GatherReturn(r)
  \/ \E h \in 1..Len(ag_handlers) : HandlerBegin(h)
  \/ \E h \in 1..Len(ag_handlers), o \in Outcomes : HandlerFinish(h, o)
  \/ \E r \in Served : AgentStop(r)
  \/ \E r \in Served : StopReturn(r)

FlowFairness ==
  /\ \A r \in Served : WF_vars(ListenStep(r))
  /\ \A r \in Served : WF_vars(GatherReturn(r))
  /\ \A r \in Served : WF_vars(StopReturn(r))
  /\ \A h \in FlowHandlers : WF_vars(h <= Len(ag_handlers) /\ HandlerBegin(h))
  /\ \A h \in FlowHandlers :
       WF_vars(h <= Len(ag_handlers) /\ \E o \in Outcomes : HandlerFinish(h, o))

SpecFlow == Init /\ [][NextFlow]_vars /\ FlowFairness

(* The bus started and stopped, with sends, drains and peeks in both. *)
NextStop ==
  \/ Start
  \/ Stop
  \/ \E m \in ValidInputs : SendDirect(m)
  \/ \E m \in Inputs : SendNotRunning(m)
  \/ \E a \in Agents : GetMessagesForAgent(a)
  \/ \E a \in Agents : Peek(a)

SpecStop == Init /\ [][NextStop]_vars

(* The bus stopped while broadcasts are in flight, with subscribers that come
   and go. *)
HaltInputs == {m \in ValidInputs : m.sender = "a" /\ m.recipient \in {"b", BROADCAST}}

NextHalt ==
  \/ Start
  \/ Stop
  \/ \E m \in HaltInputs : SendDirect(m)
  \/ \E m \in HaltInputs : SendBroadcast(m)
  \/ \E a \in Agents : BroadcastDeliver(a)
  \/ BroadcastReturn
  \/ \E i \in 1..Len(tasks) : NotifySubscriber(i)
  \/ \E a \in SubTargets : Subscribe(a, "cb_ok")

SpecHalt == Init /\ [][NextHalt]_vars

(* Callbacks registered and removed between direct sends and broadcasts. *)
NextUnsub ==
  \/ Start
  \/ \E m \in HaltInputs : SendDirect(m)
  \/ \E m \in HaltInputs : SendBroadcast(m)
  \/ \E a \in Agents : BroadcastDeliver(a)
  \/ BroadcastReturn
  \/ \E i \in 1..Len(tasks) : NotifySubscriber(i)
  \/ \E a \in SubTargets : Subscribe(a, "cb_ok")
  \/ \E a \in SubTargets : Unsubscribe(a, "cb_ok")

SpecUnsub == Init /\ [][NextUnsub]_vars

(* Which queues the bus knows: direct sends and broadcasts among drains,
   peeks, clears and size queries of any recipient. *)
Polled == {"c"}       \* the recipient that is drained and peeked

NextKnown ==
  \/ Start
  \/ \E m \in HaltInputs : SendDirect(m)
  \/ \E m \in HaltInputs : SendBroadcast(m)
  \/ \E a \in Agents : BroadcastDeliver(a)
  \/ BroadcastReturn
  \/ \E a \in Polled : GetMessagesForAgent(a)
  \/ \E a \in Polled : Peek(a)
  \/ \E a \in Agents : ClearAgentQueue(a)
  \/ \E a \in Agents : GetAgentQueueSize(a)

SpecKnown == Init /\ [][NextKnown]_vars

(* Broadcasts to a recipient that has a routing rule and subscribers. *)
RuledInputs == {m \in ValidInputs : m.recipient \in RuleTargets \cup {BROADCAST}}

NextRuled ==
  \/ Start
  \/ \E m \in RuledInputs : SendDirect(m)
  \/ \E m \in RuledInputs : SendRouted(m)
  \/ \E m \in RuledInputs : SendBroadcast(m)
  \/ \E a \in Agents : BroadcastDeliver(a)
  \/ BroadcastReturn
  \/ \E i \in 1..Len(tasks) : NotifySubscriber(i)
  \/ \E a \in RuleTargets : Subscribe(a, "cb_ok")
  \/ \E a \in RuleTargets, rule \in Rules : AddRoutingRule(a, rule)
  \/ \E a \in SubTargets : GetAgentQueueSize(a)

SpecRuled == Init /\ [][NextRuled]_vars

(* The manager: two runtimes started together and stopped by
   stop_all_agents(), the first of them handling messages. *)
MgrInputs == {m \in AgentInputs : m.sender = "a"}

NextMgr ==
  \/ Start
  \/ \E m \in MgrInputs : SendDirect(m)
  \/ \E r \in Runtimes : Initialize(r)
  \/ StartAll
  \/ \E r \in Runtimes : ListenStep(r)
  \/ \E r \in Runtimes : GatherReturn(r)
  \/ \E h \in 1..Len(ag_handlers) : HandlerBegin(h)
  \/ \E h \in 1..Len(ag_handlers) : HandlerFinish(h, "empty")
  \/ \E f \in [Runtimes -> StopOutcomes] : StopAll(f)
  \/ StopAllResume
  \/ StopAllReturn

SpecMgr == Init /\ [][NextMgr]_vars

(* The agent-status wrappers of the workspace. *)
NextStatus ==
  \/ \E a \in StatusAgents, st \in StatusValues : UpdateAgentStatus(a, st)
  \/ \E a \in {"x"} : SetPlain(a, "idle")
  \/ \E a \in StatusAgents : GetAgentStatus(a)
  \/ GetAllAgentStatuses

SpecStatus == Init /\ [][NextStatus]_vars

(* ------------------- vocabulary of the properties ---------------------- *)
RECURSIVE Flat(_)
Flat(ss) == IF ss = <<>> THEN <<>> ELSE Head(ss) \o Flat(Tail(ss))

Range(f) == {f[i] : i \in DOMAIN f}

Count(x, f) == Cardinality({i \in DOMAIN f : f[i] = x})

(* the oids appended to r's queue since r was last drained *)
Since(r) == SubSeq(arrived[r], mark[r] + 1, Len(arrived[r]))

LastOf(f, n) == SubSeq(f, Len(f) - n + 1, Len(f))

Min(x, y) == IF x < y THEN x ELSE y

(* the accepted sends addressed to r that took the default enqueue *)
DirectSends(r) ==
  {k \in 1..Len(sent) : sent[k].input.recipient = r /\ ~sent[k].ruled}

(* a queued or returned message is the one its send was given, completed
   with an id and a timestamp *)
AsSent(x) ==
  LET given == sent[x.oid].input IN
  /\ x.sender = given.sender
  /\ x.recipient = given.recipient
  /\ x.role = given.role
  /\ x.intent = given.intent
  /\ x.content = given.content
  /\ x.message_id # AbsentId
  /\ given.message_id # AbsentId => x.message_id = given.message_id
  /\ x.timestamp # AbsentTs

(* C1: a drain of recipient r that follows at most max_queue_size arrivals
   returns exactly the messages that arrived since the previous drain, in
   arrival order, each as it was sent and carrying an id and a timestamp;
   among them the ones addressed to r are all the not yet drained sends to r
   that no routing rule took, in the order the sends were made. *)
C1_FifoDrain ==
  [][\A r \in Agents :
       (drained'[r] # drained[r] /\ Len(Since(r)) <= MaxQueue) =>
         LET got == drained'[r][Len(drained'[r])] IN
         /\ Oids(got) = Since(r)
         /\ \A i \in 1..Len(got) : AsSent(got[i])
         /\ {got[i].oid : i \in {j \in 1..Len(got) : got[j].recipient = r}}
              = DirectSends(r) \ (Range(Oids(Flat(drained[r]))) \cup Range(evicted[r]))
         /\ \A i, j \in 1..Len(got) :
              (i < j /\ got[i].recipient = r /\ got[j].recipient = r)
                => got[i].oid < got[j].oid
    ]_vars

(* C1 witness: one drain returned max_queue_size messages that were sent
   directly to the recipient, one of them with the caller's own id. *)
C1_Witness ==
  \E r \in Agents : \E b \in 1..Len(drained[r]) :
    /\ Len(drained[r][b]) = MaxQueue
    /\ \A i \in 1..MaxQueue : drained[r][b][i].recipient = r
    /\ \E i \in 1..MaxQueue : drained[r][b][i].message_id = <<"cid">>

(* C2: every queue holds at most max_queue_size messages, and they are the
   last min(n, max_queue_size) of the n messages that arrived since the
   queue was last drained, in arrival order. *)
C2_BoundedQueue ==
  \A r \in DOMAIN message_queues :
    /\ Len(message_queues[r]) <= MaxQueue
    /\ Oids(message_queues[r])
         = LastOf(Since(r), Min(Len(Since(r)), MaxQueue))

(* C2 witness: more than max_queue_size messages arrived without a drain. *)
C2_Witness ==
  \E r \in DOMAIN message_queues :
    /\ Len(Since(r)) = MaxQueue + 1
    /\ Len(message_queues[r]) = MaxQueue
    /\ evicted[r] = <<arrived[r][1]>>

(* the deliveries a broadcast still owes *)
Owed(k) ==
  IF \E i \in 1..Len(bcasts) : bcasts[i].msg.oid = k
    THEN (CHOOSE b \in Range(bcasts) : b.msg.oid = k).left
    ELSE {}

Broadcasts == {k \in 1..Len(sent) : sent[k].input.recipient = BROADCAST}

HasRequired(m) == \A f \in RequiredFields : m[f] # Absent

(* C3: a send of a message that lacks a required field is never accepted:
   only messages with every required field are ever recorded or queued; the
   call ends in an error (ValueError on a running bus) and changes no queue,
   no history, no counter, no notification task and no routing-rule
   invocation. *)
C3_InvalidRejected ==
  [][/\ \A k \in 1..Len(sent') : HasRequired(sent'[k].input)
     /\ \A k \in 1..Len(message_history') : HasRequired(message_history'[k])
     /\ \A r \in DOMAIN message_queues' :
          \A k \in 1..Len(message_queues'[r]) : HasRequired(message_queues'[r][k])
     /\ sendResult'.status = "ValueError" => ~HasRequired(sendResult'.msg)
     /\ (/\ sendResult' # sendResult
         /\ sendResult'.status \in {"ValueError", "RuntimeError"}
         /\ ~HasRequired(sendResult'.msg)) =>
          UNCHANGED <<message_queues, message_history, stats, tasks, bcasts,
                         ruleCalls, subscribers, routing_rules, running, sent,
                         arrived, evicted>>
    ]_vars

(* C3 witness: a message without a role, addressed to a recipient that has a
   routing rule, was rejected while messages were queued and notification
   tasks were pending. *)
C3_Witness ==
  /\ sendResult.status = "ValueError"
  /\ sendResult.msg.role = Absent
  /\ sendResult.msg.recipient \in DOMAIN routing_rules
  /\ \E r \in DOMAIN message_queues : message_queues[r] # <<>>
  /\ \E i \in 1..Len(tasks) : tasks[i].st = "pending"
  /\ stats.messages_sent > 0

(* C4: a broadcast is appended exactly once to the queue of every recipient
   that was known when it was sent, the sender excepted, as soon as that
   delivery has run, and never to the sender's queue or to any other. *)
C4_BroadcastOnce ==
  \A k \in Broadcasts : \A r \in Agents :
    Count(k, arrived[r])
      = IF r \in (sent[k].known \ {sent[k].input.sender}) \ Owed(k) THEN 1 ELSE 0

(* C4 witness: a broadcast has returned that went to two recipients while
   the sender's own queue was known and not empty. *)
C4_Witness ==
  \E k \in Broadcasts :
    LET s == sent[k].input.sender IN
    /\ Owed(k) = {}
    /\ \A i \in 1..Len(bcasts) : bcasts[i].msg.oid # k
    /\ sent[k].known = Agents
    /\ s \in DOMAIN message_queues
    /\ message_queues[s] # <<>>
    /\ \A r \in Agents \ {s} : Count(k, Oids(message_queues[r])) = 1

NewTasksOf(r) == IF r \in DOMAIN subscribers THEN subscribers[r] ELSE <<>>

(* the change records that touch key k: its own, and every clear *)
Touches(k) ==
  {p \in 1..Len(change_history) :
     change_history[p].key = k \/ change_history[p].key = WILDCARD}

(* the value key k holds once the first p changes are made, read off the
   values the changes wrote *)
HeldAfter(k, p) ==
  LET before == {q \in Touches(k) : q <= p} IN
  IF before = {} THEN NONE
  ELSE LET q == CHOOSE x \in before : \A y \in before : y <= x IN
       IF change_history[q].operation = "set"
         THEN change_history[q].new_value ELSE NONE

(* the set() calls on key k whose body has run *)
Completed(k) ==
  {i \in 1..Len(ws_calls) : ws_calls[i].key = k /\ ws_calls[i].ranAt > 0}

(* calls i and j were both issued before either had run, i ran first, and
   nothing but the two has touched their key since i ran *)
ConcurrentPair(i, j) ==
  /\ i # j
  /\ ws_calls[i].key = ws_calls[j].key
  /\ ws_calls[i].ranAt > 0
  /\ ws_calls[i].ranAt < ws_calls[j].ranAt
  /\ ws_calls[j].spawnedAt < ws_calls[i].ranAt
  /\ \A p \in Touches(ws_calls[i].key) :
       p > ws_calls[i].ranAt => p = ws_calls[j].ranAt

(* C5: when two set() calls on one key were issued concurrently, a
   get_with_metadata of the key made after both have run, with no other change
   of the key in between, sees the order in which the two ran: the value is
   the second write's, previous_value is the first write's, and the history
   holds the first write followed by the second one taking over from it. *)
C5_NoLostUpdate ==
  \A i, j \in 1..Len(ws_calls) :
    ( /\ ConcurrentPair(i, j)
      /\ ws_ret.op = "get_with_metadata"
      /\ ws_ret.key = ws_calls[i].key )
    => /\ ws_ret.value = ws_calls[j].value
       /\ ws_ret.metadata.agent_id = ws_calls[j].agent_id
       /\ ws_ret.metadata.previous_value = ws_calls[i].value
       /\ change_history[ws_calls[i].ranAt].new_value = ws_calls[i].value
       /\ change_history[ws_calls[j].ranAt].old_value = ws_calls[i].value
       /\ change_history[ws_calls[j].ranAt].new_value = ws_calls[j].value

C5_Witness ==
  \E i, j \in 1..Len(ws_calls) :
    /\ ConcurrentPair(i, j)
    /\ ws_calls[i].value # ws_calls[j].value
    /\ ws_calls[i].agent_id # ws_calls[j].agent_id
    /\ ws_calls[i].spawnedAt = ws_calls[j].spawnedAt
    /\ ws_ret.op = "get_with_metadata"
    /\ ws_ret.key = ws_calls[i].key
    /\ ws_ret.metadata.previous_value = ws_calls[i].value

(* C6: when the last change of a key is a set(), get_with_metadata of the key
   returns the value and the writer of the set() call that ran last, and as
   previous_value the value the key held just before it (None when the key was
   absent then); get of the key returns that same value. *)
C6_LastSetRead ==
  \A k \in Keys :
    ( /\ ws_ret.op \in {"get", "get_with_metadata"}
      /\ ws_ret.key = k
      /\ Completed(k) # {}
      /\ \A p \in Touches(k) : \E i \in Completed(k) : p <= ws_calls[i].ranAt )
    => LET last == CHOOSE i \in Completed(k) :
                     \A j \in Completed(k) : ws_calls[j].ranAt <= ws_calls[i].ranAt
       IN /\ ws_ret.value = ws_calls[last].value
          /\ ws_ret.op = "get_with_metadata" =>
               /\ ws_ret.metadata.agent_id = ws_calls[last].agent_id
               /\ ws_ret.metadata.operation = "set"
               /\ ws_ret.metadata.previous_value =
                    HeldAfter(k, ws_calls[last].ranAt - 1)

C6_Witness ==
  /\ ws_ret.op = "get_with_metadata"
  /\ ws_ret.key = "k1"
  /\ ws_ret.value = "v2"
  /\ ws_ret.metadata.agent_id = "B"
  /\ ws_ret.metadata.previous_value = "v1"
  /\ Len(change_history) = 2
  /\ \A p \in 1..2 : change_history[p].operation = "set"

(* C11: a delete of a key that is not present reports false and appends no
   change record, leaves the delete counter and every other counter as they
   were, creates no notification task and leaves every stored value and its
   metadata untouched (a delete step is one that sets the returned result or
   creates the lock of the key). *)
C11_DeleteMissingNoOp ==
  [][ ( /\ ws_ret'.op = "delete"
        /\ ws_ret' # ws_ret \/ locks' # locks
        /\ ws_ret'.key \notin DOMAIN data )
        => /\ ws_ret'.value = "False"
           /\ change_history' = change_history
           /\ ws_stats' = ws_stats
           /\ ws_notes' = ws_notes
           /\ data' = data
           /\ metadata' = metadata ]_vars

C11_Witness ==
  /\ ws_ret.op = "delete"
  /\ ws_ret.key = "k1"
  /\ ws_ret.value = "False"
  /\ "k2" \in DOMAIN data
  /\ Len(ws_subscribers["k1"]) > 0
  /\ Len(ws_subscribers[WILDCARD]) > 0
  /\ Len(change_history) = 1

(* C12: a clear of a workspace holding n keys removes all n keys and appends
   n change records, one for each removed key. *)
C12_ClearRecordPerKey ==
  [][ ( /\ Len(change_history') > Len(change_history)
        /\ change_history'[Len(change_history')].operation = "clear"
        /\ DOMAIN data # {} )
        => /\ data' = <<>>
           /\ Len(change_history') = Len(change_history) + Cardinality(DOMAIN data) ]_vars

(* C13: the change history is capacity-bounded: some capacity smaller than
   the number of mutations made bounds the number of records it holds (the
   oldest record being dropped by a mutation made at capacity). *)
C13_HistoryCapped ==
  \E cap \in 1..(MaxChanges - 1) : Len(change_history) <= cap

(* the new_value of the last record of key k among the first p - 1 records of
   history h, None when k has no record there *)
PrevNewValue(h, k, p) ==
  LET prev == {q \in 1..(p - 1) : h[q].key = k} IN
  IF prev = {} THEN NONE
  ELSE h[CHOOSE q \in prev : \A x \in prev : x <= q].new_value

(* C14: in executions made of set and delete calls, records are only ever
   appended to the history, never changed or reordered; each record's
   old_value is the new_value of the previous record of the same key (None
   when there is none, or when that record is a delete); and the record of
   every set() call that has run stands at the position at which the call
   took effect, with the call's key, value and writer. *)
C14_PerKeyOrder ==
  [][ (\A p \in 1..Len(change_history') : change_history'[p].operation # "clear")
        => /\ Len(change_history') >= Len(change_history)
           /\ SubSeq(change_history', 1, Len(change_history)) = change_history
           /\ \A p \in 1..Len(change_history') :
                /\ change_history'[p].old_value =
                     PrevNewValue(change_history', change_history'[p].key, p)
                /\ change_history'[p].operation = "delete" =>
                     change_history'[p].new_value = NONE
           /\ \A i \in 1..Len(ws_calls') :
                ws_calls'[i].ranAt > 0 =>
                  LET r == change_history'[ws_calls'[i].ranAt] IN
                  /\ r.operation = "set"
                  /\ r.key = ws_calls'[i].key
                  /\ r.new_value = ws_calls'[i].value
                  /\ r.agent_id = ws_calls'[i].agent_id ]_vars

C14_Witness ==
  /\ Len(change_history) = 3
  /\ \A p \in 1..3 : change_history[p].key = "k1"
  /\ change_history[1].new_value = "v1"
  /\ change_history[2].operation = "delete"
  /\ change_history[2].old_value = "v1"
  /\ change_history[3].operation = "set"
  /\ change_history[3].old_value = NONE
  /\ change_history[3].new_value = "v2"

(* C15: a get changes nothing but the read counter, which grows by one: the
   stored values, the metadata, the change history and the other counters are
   the same before and after; it returns the stored value, None for a missing
   key; and a get that follows a get of the same key with no mutation in
   between returns the same result. *)
C15_GetReadOnly ==
  [][ ws_stats'.reads # ws_stats.reads
        => /\ ws_stats' = [ws_stats EXCEPT !.reads = @ + 1]
           /\ data' = data
           /\ metadata' = metadata
           /\ change_history' = change_history
           /\ ws_notes' = ws_notes
           /\ ws_ret'.op = "get"
           /\ ws_ret'.value = IF ws_ret'.key \in DOMAIN data
                                THEN data[ws_ret'.key] ELSE NONE
           /\ (ws_ret.op = "get" /\ ws_ret.key = ws_ret'.key)
                => ws_ret'.value = ws_ret.value ]_vars

C15_Witness ==
  /\ ws_stats.reads = 2
  /\ ws_ret.op = "get"
  /\ ws_ret.key = "k1"
  /\ ws_ret.value = "v2"
  /\ "k2" \notin DOMAIN data
  /\ Len(change_history) = 2

(* C16: the status of a runtime never goes from "stopped" to "listening"
   without an initialize in between (part of: the successive status values
   form a path idle -> listening -> (processing)* -> stopping -> stopped). *)
C16_NoListenAfterStopped ==
  \A r \in Runtimes :
    \A i \in 1..(Len(ag_log[r]) - 1) :
      ~(ag_log[r][i] = "stopped" /\ ag_log[r][i + 1] = "listening")

(* the handling tasks created for runtime r *)
HandlersOf(r) == {h \in 1..Len(ag_handlers) : ag_handlers[h].rt = r}

(* C17: stop() sets the status to "stopping" and then to "stopped", and the
   step in which it returns finds every handling task of the runtime
   finished; no step of stop() changes a handling task (none is cancelled):
   the tasks it waited for have ended by themselves. *)
C17_StopWaits ==
  [][ \A r \in Runtimes :
        /\ ag_stop'[r] # ag_stop[r] => ag_handlers' = ag_handlers
        /\ (ag_stop'[r].pc = "waiting" /\ ag_stop[r].pc = "none")
             => ag_status'[r] = "stopping"
        /\ (ag_stop'[r].pc = "returned" /\ ag_stop[r].pc # "returned")
             => /\ ag_status'[r] = "stopped"
                /\ Len(ag_log'[r]) >= 2
                /\ ag_log'[r][Len(ag_log'[r])] = "stopped"
                /\ ag_log'[r][Len(ag_log'[r]) - 1] = "stopping"
                /\ \A h \in HandlersOf(r) :
                     ag_handlers'[h].pc \in {"done", "raised"} ]_vars

C17_Witness ==
  \E r \in Runtimes :
    /\ ag_stop[r].pc = "returned"
    /\ Cardinality(ag_stop[r].wait) = 2
    /\ \A h \in ag_stop[r].wait : ag_handlers[h].pc = "done"
    /\ ag_status[r] = "stopped"

(* the message a step has appended to the bus history *)
Published == message_history'[Len(message_history')]

(* the step sends exactly one message, a response of runtime r to the sender
   of message orig with the given content, correlated with orig, and it is
   appended to the queue of that sender *)
AnswersWith(r, orig, content) ==
  /\ Len(sent') = Len(sent) + 1
  /\ Published.oid = Len(sent')
  /\ stats'.messages_sent = stats.messages_sent + 1
  /\ Published.sender = r
  /\ Published.recipient = orig.sender
  /\ Published.intent = "response"
  /\ Published.content = content
  /\ Published.original_message_id = orig.message_id
  /\ arrived' = [arrived EXCEPT ![orig.sender] = Append(@, Published.oid)]
  /\ message_queues'[orig.sender][Len(message_queues'[orig.sender])] = Published

(* C18: when process_message raises for a drained message while the bus is
   running, the handling task sends exactly one error response to the sender
   of that message and ends normally; the listen loop, the status and every
   other handling task (of the same batch or of another) are left as they
   were, so they go on. *)
C18_ErrorAnswered ==
  [][ \A h \in 1..Len(ag_handlers) :
        ( /\ ag_handlers[h].pc = "processing"
          /\ ag_handlers'[h].outcome = "raise"
          /\ running )
        => /\ AnswersWith(ag_handlers[h].rt, ag_handlers[h].msg, "error")
           /\ ag_handlers'[h].pc = "done"
           /\ ag_listen' = ag_listen
           /\ ag_status' = ag_status
           /\ ag_active' = ag_active
           /\ Len(ag_handlers') = Len(ag_handlers)
           /\ \A g \in 1..Len(ag_handlers) :
                g # h => ag_handlers'[g] = ag_handlers[g] ]_vars

C18_Witness ==
  \E h1, h2, h3 \in 1..Len(ag_handlers) :
    /\ ag_handlers[h1].outcome = "raise"
    /\ ag_handlers[h1].pc = "done"
    /\ ag_handlers[h1].published # <<>>
    /\ h2 # h1
    /\ ag_handlers[h2].batch = ag_handlers[h1].batch
    /\ ag_handlers[h2].outcome = "result"
    /\ ag_handlers[h2].published # <<>>
    /\ ag_handlers[h2].published[1].oid > ag_handlers[h1].published[1].oid
    /\ ag_handlers[h3].batch > ag_handlers[h1].batch
    /\ ag_handlers[h3].outcome = "result"
    /\ ag_handlers[h3].pc = "done"

(* C19: when process_message returns a result that is not empty (the bus
   running), the handling task sends exactly one message: intent "response",
   recipient the sender of the original message, original_message_id the id
   of the original message; when the result is empty or None it sends
   nothing. *)
C19_ResponseCorrelated ==
  [][ \A h \in 1..Len(ag_handlers) :
        ( /\ ag_handlers[h].pc = "processing"
          /\ ag_handlers'[h].pc # "processing" )
        => /\ (ag_handlers'[h].outcome = "result" /\ running)
                => /\ AnswersWith(ag_handlers[h].rt, ag_handlers[h].msg, "result")
                   /\ ag_handlers[h].msg.message_id # AbsentId
           /\ ag_handlers'[h].outcome = "empty"
                => /\ sent' = sent
                   /\ message_history' = message_history
                   /\ message_queues' = message_queues
                   /\ stats' = stats
                   /\ ag_handlers'[h].published = <<>> ]_vars

C19_Witness ==
  \E h1, h2 \in 1..Len(ag_handlers) :
    /\ ag_handlers[h1].outcome = "result"
    /\ ag_handlers[h1].published # <<>>
    /\ ag_handlers[h1].msg.sender = "c"
    /\ "c" \in DOMAIN message_queues
    /\ \E i \in 1..Len(message_queues["c"]) :
         /\ message_queues["c"][i].intent = "response"
         /\ message_queues["c"][i].original_message_id = <<"cid">>
         /\ message_queues["c"][i].oid = ag_handlers[h1].published[1].oid
    /\ ag_handlers[h2].outcome = "empty"
    /\ ag_handlers[h2].pc = "done"
    /\ ag_handlers[h2].published = <<>>

(* C20: a send on a bus that is not running, never started or stopped, ends
   in an error for the caller and leaves the queues, the history, the
   counters, the notification tasks and the log of accepted sends as they
   were; what is queued stays there for peek, and a drain made while the bus
   is not running still returns the whole queue. *)
C20_NotRunningRejected ==
  [][ /\ (sendResult' # sendResult /\ ~running)
          => /\ sendResult'.status = "RuntimeError"
             /\ message_queues' = message_queues
             /\ message_history' = message_history
             /\ stats' = stats
             /\ tasks' = tasks
             /\ sent' = sent
             /\ \A a \in Agents : PeekMessages(a)' = PeekMessages(a)
      /\ sendResult'.status = "RuntimeError" /\ sendResult' # sendResult
          => ~running
      /\ \A a \in Agents :
           (~running /\ mark'[a] # mark[a])
             => /\ drained'[a] = Append(drained[a], message_queues[a])
                /\ message_queues'[a] = <<>> ]_vars

C20_Witness ==
  /\ ~running
  /\ sendResult.status = "RuntimeError"
  /\ stats.messages_sent = 2
  /\ "b" \in DOMAIN message_queues
  /\ Len(message_queues["b"]) = 1
  /\ Len(drained["b"]) = 1
  /\ mark["b"] = 1

(* C21: once stop() has returned (the bus is not running), no notification
   task is pending: each one has finished or has been cancelled, and none is
   created afterwards, whatever broadcast deliveries were in flight. *)
C21_NoTaskAfterStop ==
  ~running => \A i \in 1..Len(tasks) : tasks[i].st # "pending"

(* C22: a send never waits for a consumer. On a running bus a direct send of
   a valid message can always be made, whether or not the recipient's queue
   is full and whether or not notification tasks are still pending; and the
   step that accepts it is the step in which it returns: it reports success,
   the message is at the tail of the recipient's queue (the oldest entry
   being dropped from a full queue), and every task that was pending before
   is still pending, no callback having been waited for. *)
C22_SendNeverWaits ==
  /\ [](\A m \in ValidInputs :
         ( /\ running
           /\ Len(sent) < MaxSends
           /\ RouteOf(SetDefaults(m, Len(sent) + 1)) = "direct" )
         => ENABLED SendDirect(m))
  /\ [][ Len(sent') > Len(sent) =>
           LET r == sent'[Len(sent')].input.recipient
               q == message_queues'[r] IN
           /\ sendResult'.status = "ok"
           /\ stats'.messages_sent = stats.messages_sent + 1
           /\ q[Len(q)].oid = Len(sent')
           /\ Len(q) = Min(Len(QueueOf(message_queues, r)) + 1, MaxQueue)
           /\ \A i \in 1..Len(tasks) :
                tasks[i].st = "pending" => tasks'[i].st = "pending"
           /\ \A i \in (Len(tasks) + 1)..Len(tasks') :
                tasks'[i].st = "pending" ]_vars

(* C22 witness: the last send returned with success although the queue of
   its recipient was already full and has never been drained, and while a
   notification of an earlier message and its own are still pending. *)
C22_Witness ==
  /\ sendResult.status = "ok"
  /\ Len(sent) = MaxSends
  /\ "b" \in DOMAIN message_queues
  /\ Len(message_queues["b"]) = MaxQueue
  /\ evicted["b"] # <<>>
  /\ drained["b"] = <<>>
  /\ message_queues["b"][MaxQueue].oid = Len(sent)
  /\ \E i, j \in 1..Len(tasks) :
       /\ tasks[i].st = "pending" /\ tasks[i].oid = Len(sent)
       /\ tasks[j].st = "pending" /\ tasks[j].oid < Len(sent)

(* C23: while callback c is subscribed to recipient r, every message
   appended to r's queue, by a direct send or by a broadcast delivery, starts
   exactly one invocation of c with that message, and a delivery to r starts
   none of a callback that is not subscribed to r; once unsubscribe(r, c) has
   been made, c is not subscribed to r any more. *)
C23_OneInvocationWhileSubscribed ==
  [][ \A r \in SubTargets, c \in Callbacks :
        LET k == arrived'[r][Len(arrived'[r])]
            started == {i \in (Len(tasks) + 1)..Len(tasks') :
                          tasks'[i].cb = c /\ tasks'[i].rcpt = r /\ tasks'[i].oid = k}
        IN
        /\ (arrived'[r] # arrived[r] /\ Count(c, NewTasksOf(r)) > 0)
             => Cardinality(started) = 1
        /\ (arrived'[r] # arrived[r] /\ Count(c, NewTasksOf(r)) = 0)
             => Cardinality(started) = 0
        /\ Count(c, NewTasksOf(r)') < Count(c, NewTasksOf(r))
             => Count(c, NewTasksOf(r)') = 0 ]_vars

(* calls i and j, on different keys, were both issued before either had run,
   both have run, and each is the last change of its key *)
ConcurrentDistinct(i, j) ==
  /\ ws_calls[i].key # ws_calls[j].key
  /\ ws_calls[i].ranAt > 0
  /\ ws_calls[j].ranAt > 0
  /\ ws_calls[i].spawnedAt < ws_calls[j].ranAt
  /\ ws_calls[j].spawnedAt < ws_calls[i].ranAt
  /\ \A x \in {i, j} : \A p \in Touches(ws_calls[x].key) : p <= ws_calls[x].ranAt

(* C24: no workspace operation waits for an operation on another key: a set()
   call that has been issued can run whatever other calls are still waiting
   to run, and so can a get and a delete of any key; one step runs the
   critical section of one call only (at most one call completes and at most
   one change is recorded in a step); and when set() calls on different keys
   were issued concurrently, each key holds the value its call wrote. *)
C24_PerKeyIndependence ==
  /\ [](\A i \in 1..Len(ws_calls) :
         (ws_calls[i].ranAt = 0 /\ Len(change_history) < MaxChanges)
           => ENABLED Set(i))
  /\ [](\A k \in Keys :
         /\ ws_stats.reads < MaxReads => ENABLED Get(k)
         /\ Len(change_history) < MaxChanges => ENABLED Delete(k, "A"))
  /\ [][ /\ Cardinality({i \in 1..Len(ws_calls) :
                           ws_calls'[i].ranAt # ws_calls[i].ranAt}) <= 1
         /\ Len(change_history') <= Len(change_history) + 1 ]_vars
  /\ [](\A i, j \in 1..Len(ws_calls) :
         ConcurrentDistinct(i, j)
           => /\ data[ws_calls[i].key] = ws_calls[i].value
              /\ data[ws_calls[j].key] = ws_calls[j].value
              /\ metadata[ws_calls[i].key].agent_id = ws_calls[i].agent_id
              /\ metadata[ws_calls[j].key].agent_id = ws_calls[j].agent_id)

(* C24 witness: two set() calls on different keys were issued together, the
   one issued last ran first, and both keys hold what was written. *)
C24_Witness ==
  /\ Len(ws_calls) = 2
  /\ ConcurrentDistinct(1, 2)
  /\ ws_calls[1].spawnedAt = ws_calls[2].spawnedAt
  /\ ws_calls[2].ranAt < ws_calls[1].ranAt
  /\ data[ws_calls[1].key] = ws_calls[1].value
  /\ data[ws_calls[2].key] = ws_calls[2].value
  /\ ws_calls[1].value # ws_calls[2].value

(* C25: when stop_all has been called, a failure of the stop() of one
   runtime does not keep the others from being stopped: stop_all returns,
   and once it has, every registered runtime whose own stop() does not fail
   has status "stopped" and every listen task has ended. *)
C25_StopAllIsolated ==
  /\ mgr.pc # "raised"
  /\ mgr.pc = "returned"
       => /\ \A r \in Runtimes :
               mgr.fails[r] = "ok" => ag_status[r] = "stopped"
          /\ \A r \in mgr.tasks : ag_listen[r].pc \in {"cancelled", "exited"}

(* C26: a peek of a recipient returns the messages of its queue, oldest
   first, in the order in which they arrived, and removes nothing: the
   contents of every queue, the history, the counters, the tasks and the
   drain log are the same after the peek as before it; a drain returns the
   whole queue as it stands, so a drain made right after a peek returns the
   sequence the peek returned. *)
C26_PeekKeeps ==
  [][ \A a \in Agents :
        /\ (peeked'.n # peeked.n /\ peeked'.agent = a)
             => /\ peeked'.msgs = QueueOf(message_queues', a)
                /\ Oids(peeked'.msgs) = LastOf(Since(a), Len(peeked'.msgs))
                /\ Len(peeked'.msgs) = Min(Len(Since(a)), MaxQueue)
                /\ \A r \in Agents :
                     QueueOf(message_queues', r) = QueueOf(message_queues, r)
                /\ UNCHANGED <<message_history, stats, tasks, sent, arrived,
                               mark, drained, evicted, running, sendResult>>
        /\ mark'[a] # mark[a]
             => /\ message_queues'[a] = <<>>
                /\ drained'[a] = Append(drained[a], QueueOf(message_queues, a)) ]_vars

(* C26 witness: a peek returned two messages, the older first, and the drain
   made after it returned the same two. *)
C26_Witness ==
  /\ peeked.agent = "b"
  /\ Len(peeked.msgs) = 2
  /\ peeked.msgs[1].oid < peeked.msgs[2].oid
  /\ drained["b"] = <<peeked.msgs>>
  /\ message_queues["b"] = <<>>

(* C27: the history holds the most recently accepted messages, in the order
   of their sends, up to its capacity, the oldest being dropped first: it is
   the last min(number of accepted sends, capacity) accepted messages, each
   of them once and as it was sent (whether it was then queued, broadcast,
   handed to a routing rule that failed, or pushed out of a queue); and no
   step other than an accepted send changes it: no drain, and no delivery
   that evicts from a queue. *)
C27_HistoryLastAccepted ==
  [][ /\ Len(message_history') = Min(Len(sent'), MaxHistory)
      /\ \A i \in 1..Len(message_history') :
           LET k == Len(sent') - Len(message_history') + i IN
           /\ message_history'[i].oid = k
           /\ message_history'[i] = SetDefaults(sent'[k].input, k)
      /\ message_history' # message_history => Len(sent') = Len(sent) + 1
      /\ Len(sent') = Len(sent) + 1 =>
           message_history'[Len(message_history')].oid = Len(sent')
      /\ (drained' # drained \/ mark' # mark \/ evicted' # evicted)
           => (message_history' = message_history \/ Len(sent') = Len(sent) + 1)
      /\ (drained' # drained \/ mark' # mark)
           => message_history' = message_history ]_vars

(* C27 witness: three messages were accepted; the history, at capacity, has
   dropped the first and holds the other two in send order, one of which has
   been pushed out of its queue or drained, and the last of which a failing
   routing rule took. *)
C27_Witness ==
  /\ Len(sent) = MaxHistory + 1
  /\ Len(message_history) = MaxHistory
  /\ message_history[1].oid = 2
  /\ message_history[MaxHistory].oid = MaxHistory + 1
  /\ sendResult.status = "RuleError"
  /\ \E r \in Agents : drained[r] # <<>> /\ 2 \in Range(Oids(Flat(drained[r])))

(* the update_agent_status call made last for agent a *)
LastUpdate(a) ==
  LET mine == {i \in 1..Len(ws_calls) : ws_calls[i].key = StatusKey(a)} IN
  CHOOSE i \in mine : \A j \in mine : j <= i

(* C28: get_agent_status(a) returns the record of the update_agent_status
   call made last for a, with the status that call was given (None when
   there was none); and get_all_agent_statuses returns one entry for every
   agent whose status key is stored, under the id of that agent and with the
   stored record, and nothing else: no entry for a key outside the
   namespace. *)
C28_StatusByAgent ==
  [][ /\ ws_ret'.op = "get_agent_status" =>
           \E a \in StatusAgents :
             /\ ws_ret'.key = StatusKey(a)
             /\ IF \E i \in 1..Len(ws_calls) : ws_calls[i].key = StatusKey(a)
                  THEN /\ ws_ret'.value = ws_calls[LastUpdate(a)].value
                       /\ ws_ret'.value.status \in StatusValues
                  ELSE ws_ret'.value = NONE
      /\ ws_ret'.op = "get_all_agent_statuses" =>
           LET res == ws_ret'.value
               stored == {a \in StatusAgents : StatusKey(a) \in DOMAIN data} IN
           /\ DOMAIN res = stored
           /\ \A a \in stored \cap DOMAIN res : res[a] = data[StatusKey(a)] ]_vars

(* C29: a set() call ends by returning success or failure, and with
   subscribers to notify, whether their callbacks fail or not, it still
   returns success with the value stored: every set() call that runs returns
   True and leaves its value under its key. *)
C29_SetSucceedsWithSubscribers ==
  [][ \A i \in 1..Len(ws_calls) :
        (ws_calls[i].ranAt = 0 /\ ws_calls'[i].ranAt > 0)
          => /\ ws_ret'.op = "set"
             /\ ws_ret'.key = ws_calls[i].key
             /\ data'[ws_calls[i].key] = ws_calls[i].value
             /\ ws_ret'.value = "True" ]_vars

(* C30: in every queue the messages stand in the order in which their sends
   were made, which is the order of their places in the history, whatever
   way direct sends and broadcasts of concurrent tasks interleave. *)
C30_QueueInSendOrder ==
  \A r \in DOMAIN message_queues :
    \A i, j \in 1..Len(message_queues[r]) :
      i < j => message_queues[r][i].oid < message_queues[r][j].oid

(* the deliveries that have failed so far: notification tasks whose callback
   raised, and invocations of a routing rule that raised *)
FailedNotifications == {i \in 1..Len(tasks) : tasks[i].st = "failed"}

FailedRuleCalls == {i \in 1..Len(ruleCalls) : ruleCalls[i][1] = "rule_fail"}

(* C31: every failed delivery is counted: the failed-deliveries counter of
   the bus equals the number of subscriber callbacks that have raised plus
   the number of routing-rule invocations that have raised. *)
C31_FailuresCounted ==
  stats.failed_deliveries =
    Cardinality(FailedNotifications) + Cardinality(FailedRuleCalls)

(* the notification tasks one behaviour can create *)
TaskIds == 1..(MaxSends * MaxSubs)

(* C32: every notification task that has completed (its callback has returned
   or raised) is eventually no longer in the set of tracked tasks, whatever
   follows, also when no further message is sent. *)
C32_CompletedReclaimed ==
  \A i \in TaskIds :
    (i <= Len(tasks) /\ tasks[i].st \in {"ok", "failed"})
      ~> (i <= Len(tasks) /\ ~tasks[i].tracked)

(* C33: a set() that succeeds increments exactly one of the two counters:
   writes when the key was not in the workspace before the call, updates when
   it was, whatever value it held. *)
C33_WriteOrUpdate ==
  [][\A i \in 1..Len(ws_calls) :
       (/\ ws_calls[i].ranAt = 0
        /\ ws_calls'[i].ranAt > 0
        /\ ws_ret'.value = "True")
       => IF ws_calls[i].key \in DOMAIN data
            THEN /\ ws_stats'.updates = ws_stats.updates + 1
                 /\ ws_stats'.writes = ws_stats.writes
            ELSE /\ ws_stats'.writes = ws_stats.writes + 1
                 /\ ws_stats'.updates = ws_stats.updates]_vars

(* the handling tasks created for runtime r *)
HandlersFor(hs, r) == {h \in 1..Len(hs) : hs[h].rt = r}

(* C34: a runtime drains its queue only while its status is "listening": a
   step that empties the queue of r or creates a handling task of r leaves r
   listening; and while the status is "stopping" or "stopped" a listen loop
   that is already running takes nothing from the queue and starts no
   handling task, so that what the queue holds stays in it. *)
C34_DrainOnlyListening ==
  [][\A r \in Served :
       /\ (\/ drained'[r] # drained[r]
           \/ mark'[r] # mark[r]
           \/ HandlersFor(ag_handlers', r) # HandlersFor(ag_handlers, r))
          => ag_status'[r] = "listening"
       /\ (ag_status[r] \in {"stopping", "stopped"} /\ ag_listen[r].pc # "ready")
          => /\ drained'[r] = drained[r]
             /\ mark'[r] = mark[r]
             /\ HandlersFor(ag_handlers', r) = HandlersFor(ag_handlers, r)
             /\ arrived'[r] = arrived[r]
                  => QueueOf(message_queues', r) = QueueOf(message_queues, r)]_vars

(* the loop has drained a batch, stop() has been called, the loop has left
   at its next pass, and a message waits in the queue *)
C34_Witness ==
  \E r \in Served :
    /\ ag_status[r] \in {"stopping", "stopped"}
    /\ ag_listen[r].pc = "exited"
    /\ drained[r] # <<>>
    /\ QueueOf(message_queues, r) # <<>>

(* C35: the listen loop does not drain again before every handling task of
   the batch it drained last has finished: a step that drains the queue of r
   or creates handling tasks of r finds every earlier handling task of r
   finished, so a message that arrives during a batch is not started before
   the batch is done. *)
C35_BatchBeforeNextDrain ==
  [][\A r \in Served :
       (\/ drained'[r] # drained[r]
        \/ mark'[r] # mark[r]
        \/ HandlersFor(ag_handlers', r) # HandlersFor(ag_handlers, r))
       => \A h \in HandlersFor(ag_handlers, r) : Finished(h)]_vars

(* a message has arrived while a batch is being handled: the loop waits in
   gather(), a task of the batch has not finished, and the message is queued *)
C35_Witness ==
  \E r \in Served :
    /\ ag_listen[r].pc = "gather"
    /\ \E h \in ag_listen[r].batch : ~Finished(h)
    /\ QueueOf(message_queues, r) # <<>>

(* C36: the messages of one drain are handled by separate tasks that run
   concurrently: a handling task that has been created can start, and one
   that is suspended in process_message can finish, whatever the other tasks
   of its batch are doing. *)
C36_BatchConcurrent ==
  \A h \in 1..Len(ag_handlers) :
    /\ ag_handlers[h].pc = "created" => ENABLED HandlerBegin(h)
    /\ ag_handlers[h].pc = "processing" => ENABLED HandlerFinish(h, "empty")

(* two tasks of one batch are suspended in process_message at once: the
   second has started before the first has finished *)
C36_Witness ==
  \E g, h \in 1..Len(ag_handlers) :
    /\ g < h
    /\ ag_handlers[g].rt = ag_handlers[h].rt
    /\ ag_handlers[g].batch = ag_handlers[h].batch
    /\ ag_handlers[g].pc = "processing"
    /\ ag_handlers[h].pc = "processing"

(* message k waits in the queue of r *)
Queued(r, k) ==
  \E i \in 1..Len(QueueOf(message_queues, r)) : message_queues[r][i].oid = k

(* message k has been drained and handed to process_message *)
Passed(r, k) ==
  \E h \in HandlersFor(ag_handlers, r) :
    ag_handlers[h].msg.oid = k /\ ag_handlers[h].pc # "created"

(* the response to the message of handling task h has been appended to the
   queue of the sender of that message *)
Responded(h) ==
  /\ ag_handlers[h].published # <<>>
  /\ ag_handlers[h].published[1].kind = "result"
  /\ ag_handlers[h].published[1].oid
       \in Range(arrived[ag_handlers[h].msg.sender])

(* C37: under fair scheduling a message that is in the queue of a runtime
   whose status is "listening" is eventually drained and passed to
   process_message, unless the status leaves "listening" or the message is
   evicted from the full queue first; and when process_message has returned
   a result that is not empty, the response is appended to the queue of the
   sender of the message. *)
C37_EventuallyHandled ==
  /\ \A r \in Served : \A k \in 1..MaxSends :
       (Queued(r, k) /\ ag_status[r] = "listening")
         ~> (\/ Passed(r, k)
             \/ ag_status[r] # "listening"
             \/ k \in Range(evicted[r]))
  /\ \A h \in FlowHandlers :
       (h <= Len(ag_handlers) /\ ag_handlers[h].outcome = "result")
         ~> (h <= Len(ag_handlers) /\ Responded(h))

(* a message drained by a later pass of the loop has been handled with a
   result and its response stands in the queue of its sender *)
C37_Witness ==
  \E h \in 1..Len(ag_handlers) :
    /\ ag_handlers[h].batch >= 2
    /\ ag_handlers[h].outcome = "result"
    /\ Responded(h)
    /\ \E i \in 1..Len(QueueOf(message_queues, ag_handlers[h].msg.sender)) :
         message_queues[ag_handlers[h].msg.sender][i].oid
           = ag_handlers[h].published[1].oid

(* C38: the recipients a broadcast goes to are the recipients whose queue
   some operation has asked for before (a direct send, a drain, a peek, a
   clear or a size query), the sender excepted: the queues the bus knows are
   at every moment exactly those, the set never shrinks, and a broadcast is
   handed to every one of them but the sender's and to no other. *)
C38_KnownIsTouched ==
  /\ [](DOMAIN message_queues = touched)
  /\ [][/\ DOMAIN message_queues \subseteq DOMAIN message_queues'
        /\ (Len(sent') = Len(sent) + 1
              /\ sent'[Len(sent')].input.recipient = BROADCAST)
           => LET to == touched \ {sent'[Len(sent')].input.sender} IN
              IF to = {} THEN bcasts' = bcasts
              ELSE /\ Len(bcasts') = Len(bcasts) + 1
                   /\ bcasts'[Len(bcasts')].left = to]_vars

(* a broadcast has reached a recipient that was only ever polled, never sent
   to, while a recipient no operation had asked for got nothing *)
C38_Witness ==
  \E k \in Broadcasts : \E r, u \in Agents :
    /\ Owed(k) = {}
    /\ arrived[r] = <<k>>
    /\ DirectSends(r) = {}
    /\ u # sent[k].input.sender
    /\ u \notin touched
    /\ arrived[u] = <<>>

(* the callbacks subscribed to recipient r on the bus *)
BusSubsOf(subs, r) == IF r \in DOMAIN subs THEN subs[r] ELSE <<>>

(* C39: a broadcast ignores the routing rules: it is appended once to the
   queue of every recipient that was known when it was sent, the sender
   excepted, also of a recipient that has a routing rule; the step that
   appends it invokes no rule and creates one notification task for each
   callback subscribed to that recipient; and no rule is ever invoked with a
   broadcast. *)
C39_BroadcastIgnoresRules ==
  /\ [](\A k \in Broadcasts :
         /\ \A i \in 1..Len(ruleCalls) : ruleCalls[i][3] # k
         /\ \A r \in Agents :
              Count(k, arrived[r])
                = IF r \in (sent[k].known \ {sent[k].input.sender}) \ Owed(k)
                    THEN 1 ELSE 0)
  /\ [][\A r \in Agents :
         (/\ Len(arrived'[r]) = Len(arrived[r]) + 1
          /\ arrived'[r][Len(arrived'[r])] \in Broadcasts)
         => LET k == arrived'[r][Len(arrived'[r])]
                cbs == BusSubsOf(subscribers, r) IN
            /\ ruleCalls' = ruleCalls
            /\ message_queues'[r][Len(message_queues'[r])].oid = k
            /\ Len(tasks') = Len(tasks) + Len(cbs)
            /\ \A i \in 1..Len(cbs) :
                 /\ tasks'[Len(tasks) + i].cb = cbs[i]
                 /\ tasks'[Len(tasks) + i].oid = k
                 /\ tasks'[Len(tasks) + i].rcpt = r
                 /\ tasks'[Len(tasks) + i].st = "pending"]_vars

(* a recipient whose rule had already taken a direct message has received a
   later broadcast in its queue, and its subscriber has been called with it *)
C39_Witness ==
  \E k \in Broadcasts : \E r \in DOMAIN routing_rules :
    /\ Count(k, arrived[r]) = 1
    /\ \E i \in 1..Len(ruleCalls) : ruleCalls[i][2] = r /\ ruleCalls[i][3] < k
    /\ \E i \in 1..Len(tasks) :
         tasks[i].oid = k /\ tasks[i].rcpt = r /\ tasks[i].st = "ok"

(* C40: in every state of the workspace, whatever set, delete, clear and
   import operations have run, the keys that have metadata are exactly the
   keys that have a value. *)
C40_MetadataKeysAreDataKeys ==
  DOMAIN metadata = DOMAIN data

(* after an import of two keys and the delete of one of them, the other key
   keeps its value and its metadata *)
C40_Witness ==
  /\ DOMAIN data # {}
  /\ DOMAIN data # Keys
  /\ \E p, q \in 1..Len(change_history) :
       /\ p < q
       /\ change_history[p].agent_id = "C"
       /\ change_history[q].operation = "delete"
  /\ \A k \in DOMAIN data : metadata[k].agent_id = "C"

(* C7: a notification that fails changes nothing but its own task: every
   queue, every other task, every counter and the running flag stay as they
   were; and every delivery, whatever failed before, appends the message to
   the recipient's queue and starts one notification per subscriber of that
   recipient. *)
C7_FailureIsolated ==
  [][/\ \A i \in 1..Len(tasks) :
          (tasks[i].st = "pending" /\ tasks'[i].st = "failed") =>
            /\ Len(tasks') = Len(tasks)
            /\ \A j \in 1..Len(tasks) : j # i => tasks'[j] = tasks[j]
            /\ UNCHANGED <<message_queues, stats, running, subscribers,
                           message_history, sendResult>>
     /\ \A r \in Agents :
          arrived'[r] # arrived[r] =>
            LET k == arrived'[r][Len(arrived'[r])]
                q == message_queues'[r]
                n == Len(NewTasksOf(r)) IN
            /\ q[Len(q)].oid = k
            /\ Len(tasks') = Len(tasks) + n
            /\ \A j \in 1..n :
                 /\ tasks'[Len(tasks) + j].cb = subscribers[r][j]
                 /\ tasks'[Len(tasks) + j].oid = k
                 /\ tasks'[Len(tasks) + j].st = "pending"
    ]_vars

(* C7 witness: for one message of A a callback has failed and another
   subscriber of A has been invoked; the message is in A's queue; a message
   sent later sits in another recipient's queue. *)
C7_Witness ==
  \E i, j \in 1..Len(tasks) :
    /\ tasks[i].st = "failed"
    /\ tasks[j].st = "ok"
    /\ tasks[j].oid = tasks[i].oid
    /\ tasks[j].rcpt = tasks[i].rcpt
    /\ i < j
    /\ tasks[i].oid \in Range(Oids(QueueOf(message_queues, tasks[i].rcpt)))
    /\ \E r \in DOMAIN message_queues \ {tasks[i].rcpt} :
         \E x \in Range(Oids(message_queues[r])) : x > tasks[i].oid

(* C8: no failure of a routing rule or of a subscriber callback reaches the
   caller of send. *)
C8_NoDeliveryFailureRaised ==
  sendResult.status # "RuleError"

(* C9: each message appended to a queue is in exactly one place: returned by
   one drain, pushed out by overflow, or still queued; and a drain returns the
   whole queue in order and leaves it empty. *)
C9_DrainOnce ==
  [][\A r \in Agents :
       LET out == Oids(Flat(drained'[r])) \o evicted'[r]
                    \o Oids(QueueOf(message_queues', r)) IN
       /\ \A x \in Range(arrived'[r]) : Count(x, arrived'[r]) = 1
       /\ Range(out) = Range(arrived'[r])
       /\ Len(out) = Len(arrived'[r])
       /\ drained'[r] # drained[r] =>
            /\ drained'[r] = Append(drained[r], message_queues[r])
            /\ message_queues'[r] = <<>>
    ]_vars

(* C9 witness: a recipient was drained twice and holds a message again. *)
C9_Witness ==
  \E r \in DOMAIN message_queues :
    /\ Len(drained[r]) = 2
    /\ message_queues[r] # <<>>

RoutedSends == {k \in 1..Len(sent) : sent[k].ruled /\ sent[k].input.recipient \in Agents}

(* C10: a send addressed to a recipient that has a routing rule invokes that
   rule exactly once with the message and is not appended to the recipient's
   queue. *)
C10_RuleInsteadOfEnqueue ==
  \A k \in RoutedSends :
    LET r == sent[k].input.recipient IN
    /\ Cardinality({i \in 1..Len(ruleCalls) : ruleCalls[i][3] = k}) = 1
    /\ \E i \in 1..Len(ruleCalls) : ruleCalls[i][2] = r /\ ruleCalls[i][3] = k
    /\ Count(k, arrived[r]) = 0

(* C10 witness: a rule took a message for a recipient whose queue already
   held one that was sent before the rule was added. *)
C10_Witness ==
  \E k \in RoutedSends :
    LET r == sent[k].input.recipient IN
    /\ r \in DOMAIN message_queues
    /\ message_queues[r] # <<>>
    /\ \E i \in 1..Len(ruleCalls) : ruleCalls[i] = <<"rule_ok", r, k>>

====
